---- MODULE Spec2Model ----
(***************************************************************************)
(* Conversation orchestration engine of the ride-booking assistant:        *)
(* SessionManager (app/services/session_service.py) over a Redis key       *)
(* space, and ConversationService (app/services/conversation_service.py),  *)
(* whose turn pipeline dispatches one utterance to a state handler that    *)
(* may call the Location Resolver (GooglePlacesService) and the Ride       *)
(* Provider (RideBookingAPIService, app/services/google_services.py).      *)
(*                                                                         *)
(* One action is one public operation run to completion by a single        *)
(* caller.  request/result/calls record the inputs, the return value and   *)
(* the collaborator calls of the operation that ran last.                  *)
(***************************************************************************)
EXTENDS Integers, Sequences, FiniteSets, TLC

VARIABLES
    store,      \* Redis key space: session id -> stored session record
    issued,     \* the identifiers create_session has handed out
    appended,   \* per session id: number of history entries persisted so far
    request,    \* the operation that ran last and what it was given
    result,     \* what that operation returned (or raised)
    calls,      \* the collaborator calls that operation made, in order
    steps,      \* every step that operation took, in order, with its outcome
    now,        \* the clock, in seconds since the service started
    inflight    \* per caller: the store operation it is in the middle of

vars ==
    <<store, issued, appended, request, result, calls, steps, now, inflight>>

(* No store operation is between its read and its write. *)
Idle == <<>>

----------------------------------------------------------------------------
(* Bounds of the model *)

MaxAppends == 1         \* history entries per session under Spec
HistoryAppends == 52    \* history entries per session under SpecHistory
MaxAffix == 2           \* characters put before and after the digits under SpecPhone

MaxTicks == 2           \* half TTL windows that pass under SpecSessions

MaxEntries == 2              \* appends to one session, finished or under way
MaxStoreCalls == 6       \* the store calls of a turn that an outage can hit first

(* Program constants *)

MaxHistory == 50        \* session_service.py:197-198
PhoneDigits == 10       \* conversation_service.py:320,324
NullRideId == -1        \* ride_id: Optional[int] = None
session_ttl == 3600     \* config/settings.py: session_ttl, in seconds

----------------------------------------------------------------------------
(* Values *)

SessionIds == {"session_1"}         \* identifiers create_session can hand out
NoId == ""                          \* no session_id supplied
UnknownId == "session_0"            \* an identifier that was never handed out

GREETING == "greeting"
ASKING_PICKUP == "asking_pickup"
ASKING_DROP == "asking_drop"
ASKING_PHONE == "asking_phone"
CONFIRMING_RIDE == "confirming_ride"
RIDE_CREATED == "ride_created"
COMPLETED == "completed"

ConversationState ==
    {GREETING, ASKING_PICKUP, ASKING_DROP, ASKING_PHONE, CONFIRMING_RIDE,
     RIDE_CREATED, COMPLETED}

Locations == {"Ukkadam", "Gandhipuram"}
NoLocation == "None"
NoPhone == <<>>
RideIds == {123456}

(* A stored ride_details value.  present = FALSE is ride_details = None. *)
NoRideDetails ==
    [present |-> FALSE, ride_id |-> NullRideId, pickup_location |-> NoLocation,
     drop_location |-> NoLocation, phone_number |-> NoPhone]

RideDetailsOf(id, pickup, drop, phone) ==
    [present |-> TRUE, ride_id |-> id, pickup_location |-> pickup,
     drop_location |-> drop, phone_number |-> phone]

(***************************************************************************)
(* Values held by an in-memory SessionContext carry the Python type they   *)
(* have there.  A record read back from the store is rebuilt by            *)
(* the SessionContext constructor, which turns every stored location into  *)
(* a LocationData instance and ride_details into a RideDetails instance    *)
(* (form "model"); a handler that assigns the resolver's result or the     *)
(* ride_details it built assigns a plain dict (form "dict").  Only a dict  *)
(* supports value['key'] and value.get('key').                             *)
(***************************************************************************)
AsNone(v) == [form |-> "none", value |-> v]
AsModel(v) == [form |-> "model", value |-> v]
AsDict(v) == [form |-> "dict", value |-> v]

Subscriptable(x) == x.form = "dict"
Truthy(x) == x.form # "none"

----------------------------------------------------------------------------
(* Utterances: sequences of characters *)

Digits == {"0", "1", "2", "3", "4", "5", "6", "7", "8", "9"}

UpperCase ==
    <<"A", "B", "C", "D", "E", "F", "G", "H", "I", "J", "K", "L", "M",
      "N", "O", "P", "Q", "R", "S", "T", "U", "V", "W", "X", "Y", "Z">>
LowerCase ==
    <<"a", "b", "c", "d", "e", "f", "g", "h", "i", "j", "k", "l", "m",
      "n", "o", "p", "q", "r", "s", "t", "u", "v", "w", "x", "y", "z">>

LowerChar(c) ==
    IF \E i \in 1..Len(UpperCase) : UpperCase[i] = c
    THEN LowerCase[CHOOSE i \in 1..Len(UpperCase) : UpperCase[i] = c]
    ELSE c

Lower(u) == [i \in 1..Len(u) |-> LowerChar(u[i])]

Contains(u, kw) ==
    \E i \in 0..(Len(u) - Len(kw)) : SubSeq(u, i + 1, i + Len(kw)) = kw

ExtractDigits(u) == SelectSeq(u, LAMBDA c : c \in Digits)

(* A phone number taken from the front of the digits. *)
FirstDigits(d) == SubSeq(d, 1, PhoneDigits)

LastDigits(d) == SubSeq(d, Len(d) - PhoneDigits + 1, Len(d))

U_ride == <<"r", "i", "d", "e">>
U_place == <<"U", "k", "k", "a", "d", "a", "m">>
U_phone ==
    <<"c", "a", "l", "l", " ", "m", "e", " ", "a", "t", " ",
      "9", "8", "7", "6", "5", "-", "4", "3", "2", "1", "0">>
U_phone_cc ==
    <<"+", "9", "1", " ", "9", "8", "7", "6", "5", " ", "4", "3", "2", "1", "0">>
U_short == <<"9", "8", "7", "6", "5">>
U_status == <<"S", "t", "a", "t", "u", "s", "?">>
U_driver == <<"d", "r", "i", "v", "e", "r">>
U_cancel == <<"C", "a", "n", "c", "e", "l">>
U_new == <<"n", "e", "w", " ", "r", "i", "d", "e">>
U_another == <<"a", "n", "o", "t", "h", "e", "r">>
U_tamil == <<"?", "?", " ", "9", "8", "7", "6", "5", "4", "3", "2", "1", "0">>

Utterances ==
    {U_ride, U_place, U_phone, U_phone_cc, U_short, U_status, U_driver,
     U_cancel, U_new, U_another}

Translations == {U_phone}

Messages == Utterances \cup {U_tamil}

KW_status == <<"s", "t", "a", "t", "u", "s">>
KW_driver == <<"d", "r", "i", "v", "e", "r">>
KW_cancel == <<"c", "a", "n", "c", "e", "l">>
KW_new == <<"n", "e", "w">>
KW_another == <<"a", "n", "o", "t", "h", "e", "r">>

----------------------------------------------------------------------------
(* SessionManager: the stored record and the operations on the key space *)

(* The value create_session writes.  expires_at is not a field of the JSON
   document: it is the expiry the key carries in the store (setex, expire). *)
NewSession ==
    [state |-> GREETING, pickup_location |-> NoLocation,
     drop_location |-> NoLocation, phone_number |-> NoPhone,
     ride_details |-> NoRideDetails, conversation_history |-> <<>>,
     created_at |-> now, updated_at |-> now,
     expires_at |-> now + session_ttl]

(* SessionContext(session_id=session_id, ...): the record carries the
   identifier it was created under. *)
Named(id, rec) == [session_id |-> id] @@ rec

NoContext ==
    [session_id |-> NoId, state |-> GREETING,
     pickup_location |-> AsNone(NoLocation),
     drop_location |-> AsNone(NoLocation), phone_number |-> NoPhone,
     ride_details |-> AsNone(NoRideDetails), conversation_history |-> <<>>,
     created_at |-> 0, updated_at |-> 0]

(* json.loads + SessionContext(...): every non-null nested value becomes a
   model instance. *)
LoadLocation(v) == IF v = NoLocation THEN AsNone(NoLocation) ELSE AsModel(v)
LoadRideDetails(v) == IF v.present THEN AsModel(v) ELSE AsNone(NoRideDetails)

Load(sid, rec) ==
    [session_id |-> rec.session_id, state |-> rec.state,
     pickup_location |-> LoadLocation(rec.pickup_location),
     drop_location |-> LoadLocation(rec.drop_location),
     phone_number |-> rec.phone_number,
     ride_details |-> LoadRideDetails(rec.ride_details),
     conversation_history |-> rec.conversation_history,
     created_at |-> rec.created_at, updated_at |-> rec.updated_at]

(* model_dump_json: the stored JSON does not keep the Python type. *)
Dump(x) == x.value

Put(st, sid, rec) ==
    [k \in DOMAIN st \cup {sid} |-> IF k = sid THEN rec ELSE st[k]]

Remove(st, sid) == [k \in DOMAIN st \ {sid} |-> st[k]]

(* get_session: "raise" is SessionException, "absent" is None. *)
(* A retrieval that treats a missing key as a failure of the store. *)
get_session_raising_when_absent(st, sid, up) ==
    IF ~up \/ sid \notin DOMAIN st THEN [ret |-> "raise", ctx |-> NoContext]
    ELSE [ret |-> "ok", ctx |-> Load(sid, st[sid])]

get_session(st, sid, up) ==
    IF ~up THEN [ret |-> "raise", ctx |-> NoContext]
    ELSE IF sid \notin DOMAIN st THEN [ret |-> "absent", ctx |-> NoContext]
    ELSE [ret |-> "ok", ctx |-> Load(sid, st[sid])]

(* for key, value in updates.items(): if hasattr(...): setattr(...) *)
Merge(rec, updates) ==
    [f \in DOMAIN rec |-> IF f \in DOMAIN updates THEN updates[f] ELSE rec[f]]

(* A rewrite that leaves the key's expiry where it was. *)
Rewritten_keeping_the_ttl(rec) == [rec EXCEPT !.updated_at = now]

(* session_context.updated_at = datetime.now(), then
   setex(session_id, self.session_ttl, ...) *)
Rewritten(rec) ==
    [rec EXCEPT !.updated_at = now, !.expires_at = now + session_ttl]

(* An update that writes the record when there is none. *)
update_session_creating(st, sid, updates, up) ==
    LET got == get_session(st, sid, up) IN
    IF got.ret = "raise" THEN [store |-> st, ret |-> "raise"]
    ELSE IF got.ret = "absent"
    THEN [store |-> Put(st, sid, Rewritten(Merge(Named(sid, NewSession),
                                                 updates))),
          ret |-> "true"]
    ELSE [store |-> Put(st, sid, Rewritten(Merge(st[sid], updates))),
          ret |-> "true"]

(* update_session: "raise" is SessionException, "false"/"true" the return. *)
update_session(st, sid, updates, up) ==
    LET got == get_session(st, sid, up) IN
    IF got.ret = "raise" THEN [store |-> st, ret |-> "raise"]
    ELSE IF got.ret = "absent" THEN [store |-> st, ret |-> "false"]
    ELSE [store |-> Put(st, sid, Rewritten(Merge(st[sid], updates))),
          ret |-> "true"]

(* A trim that keeps the oldest entries instead of the newest. *)
KeepFirst(h) ==
    IF Len(h) > MaxHistory THEN SubSeq(h, 1, MaxHistory) ELSE h

(* session_context.conversation_history[-50:] *)
KeepLast(h) ==
    IF Len(h) > MaxHistory THEN SubSeq(h, Len(h) - MaxHistory + 1, Len(h))
    ELSE h

NoText == <<>>

(* add_conversation_entry: the entry carries the two texts it was given and
   its timestamp, modelled as its position in the sequence of entries
   persisted for the session. *)
add_conversation_entry(st, sid, user_message, bot_response, n, up) ==
    LET got == get_session(st, sid, up) IN
    IF got.ret # "ok" THEN [store |-> st, ret |-> FALSE]
    ELSE
        LET entry == [timestamp |-> n + 1, user_message |-> user_message,
                      bot_response |-> bot_response]
            history == KeepLast(Append(got.ctx.conversation_history, entry))
            upd == update_session(st, sid,
                                  [conversation_history |-> history], up)
        IN  [store |-> upd.store, ret |-> upd.ret = "true"]

(* The setters swallow every exception of update_session and return False. *)
set_conversation_state(st, sid, state, up) ==
    LET upd == update_session(st, sid, [state |-> state], up)
    IN  [store |-> upd.store, ret |-> upd.ret = "true"]

set_location_data(st, sid, location_type, location_data, up) ==
    IF location_type \notin {"pickup_location", "drop_location"}
    THEN [store |-> st, ret |-> FALSE]
    ELSE
        LET upd == update_session(st, sid,
                                  location_type :> Dump(location_data), up)
        IN  [store |-> upd.store, ret |-> upd.ret = "true"]

set_phone_number(st, sid, phone_number, up) ==
    LET upd == update_session(st, sid, [phone_number |-> phone_number], up)
    IN  [store |-> upd.store, ret |-> upd.ret = "true"]

set_ride_details(st, sid, ride_details, up) ==
    LET upd == update_session(st, sid,
                              [ride_details |-> Dump(ride_details)], up)
    IN  [store |-> upd.store, ret |-> upd.ret = "true"]

(* extend_session: expire(session_id, self.session_ttl); every exception is
   swallowed and answered with False. *)
(* A deletion that reports success whatever the store answered. *)
delete_session_reporting_success(st, sid, up) ==
    IF ~up THEN [store |-> st, ret |-> FALSE]
    ELSE [store |-> Remove(st, sid), ret |-> TRUE]

(* delete_session: redis delete answers the number of keys removed; an
   unreachable store is answered with False. *)
delete_session(st, sid, up) ==
    IF ~up THEN [store |-> st, ret |-> FALSE]
    ELSE [store |-> Remove(st, sid), ret |-> sid \in DOMAIN st]

(* An extension done as an empty update: the record is rewritten. *)
extend_session_rewriting(st, sid, up) ==
    IF ~up \/ sid \notin DOMAIN st THEN [store |-> st, ret |-> FALSE]
    ELSE [store |-> Put(st, sid, Rewritten(st[sid])), ret |-> TRUE]

extend_session(st, sid, up) ==
    IF ~up \/ sid \notin DOMAIN st THEN [store |-> st, ret |-> FALSE]
    ELSE [store |-> Put(st, sid,
                        [st[sid] EXCEPT !.expires_at = now + session_ttl]),
          ret |-> TRUE]

----------------------------------------------------------------------------
(* Collaborators: what they can answer *)

ResolverOutcomes == Locations \cup {"absent", "raise"}
HttpOutcomes ==
    {"ok", "ok_without_ride_id", "bad_body", "timeout", "connection_error",
     "http_error"}
CancelOutcomes == {"ok", "error"}
StatusOutcomes == {"ok", "unavailable", "bad_body"}
DetectedLanguages == {"en", "ta"}

ERR_TYPE == "Ride creation failed: object is not subscriptable"
ERR_GENERAL == "Ride creation failed"
ERR_TIMEOUT == "Ride booking API timeout"
ERR_CONNECTION == "Could not connect to ride booking API"
ERR_HTTP == "Ride booking API HTTP error"
ERR_MISSING == "Missing required booking information"
ERR_UNKNOWN == "Unknown error"

Raised(msg, sent) ==
    [ret |-> "raise", success |-> FALSE, ride_id |-> NullRideId,
     error |-> msg, sent |-> sent]

(***************************************************************************)
(* RideBookingAPIService.create_ride.  The payload is built by             *)
(* subscripting pickup_location and drop_location before the request is    *)
(* posted; every exception, of the payload or of the request, leaves as    *)
(* RideBookingAPIException.  sent tells whether the request was posted.    *)
(***************************************************************************)
create_ride(phone_number, pickup_location, drop_location, http, id) ==
    IF ~(Subscriptable(pickup_location) /\ Subscriptable(drop_location))
    THEN Raised(ERR_TYPE, FALSE)
    ELSE CASE http = "timeout" -> Raised(ERR_TIMEOUT, TRUE)
           [] http = "connection_error" -> Raised(ERR_CONNECTION, TRUE)
           [] http = "http_error" -> Raised(ERR_HTTP, TRUE)
           [] http = "bad_body" -> Raised(ERR_GENERAL, TRUE)
           [] http = "ok_without_ride_id" ->
                [ret |-> "return", success |-> TRUE, ride_id |-> NullRideId,
                 error |-> "", sent |-> TRUE]
           [] OTHER ->
                [ret |-> "return", success |-> TRUE, ride_id |-> id,
                 error |-> "", sent |-> TRUE]

(* cancel_ride: any failure leaves as RideBookingAPIException. *)
cancel_ride(ride_id, outcome) ==
    IF outcome = "ok" THEN [ret |-> "return", success |-> TRUE]
    ELSE [ret |-> "raise", success |-> FALSE]

(* get_ride_status never raises: success is True with the provider's body or
   with the placeholder driver. *)
get_ride_status(ride_id, outcome) ==
    [ret |-> "return", success |-> TRUE,
     data |-> CASE outcome = "ok" -> "provider"
                [] outcome = "bad_body" -> "not_a_dict"
                [] OTHER -> "placeholder"]

----------------------------------------------------------------------------
(* ConversationService: the state handlers.  A handler takes and returns a
   machine m = [store, issued, k, failAt, lasting, calls, steps]: k counts
   the store calls the turn has made; store call number failAt fails, and
   so does every later one when the outage is lasting. *)

(* Python before 3.8, where CancelledError derives from Exception. *)
except_Exception_catching_all(raised) == TRUE

(* except Exception: asyncio.CancelledError derives from BaseException and
   passes through (asyncio.to_thread, used throughout, needs Python 3.9). *)
except_Exception(raised) == raised # "CancelledError"

(* The caller abandons the turn while it awaits store call number cancelAt:
   the await raises CancelledError, and the turn is over once no except
   clause on the way out catches it. *)
Halted(m) ==
    /\ m.cancelAt # 0
    /\ m.k >= m.cancelAt
    /\ ~except_Exception("CancelledError")

Up(m) ==
    /\ m.k + 1 # m.cancelAt
    /\ \/ m.failAt = 0
       \/ m.k + 1 < m.failAt
       \/ m.k + 1 > m.failAt /\ ~m.lasting

Step(m, name, outcome) ==
    IF Halted(m) THEN m
    ELSE [m EXCEPT !.steps = Append(@, [step |-> name, outcome |-> outcome])]

Outcome(ret) == IF ret THEN "true" ELSE "false"

Stored(m, r) ==
    IF Halted(m) THEN m ELSE [m EXCEPT !.store = r.store, !.k = @ + 1]
Wrote(m, name, r) == Step(Stored(m, r), name, Outcome(r.ret))
(* A collaborator called ahead of the steps the turn has taken so far. *)
Calling_ahead(m, name, outcome, detail) ==
    [m EXCEPT !.calls = Append(@, [call |-> name, outcome |-> outcome,
                                   detail |-> detail]),
              !.steps = <<[step |-> name, outcome |-> outcome]>> \o @]

Calling(m, name, outcome, detail) ==
    IF Halted(m) THEN m
    ELSE Step([m EXCEPT !.calls = Append(@, [call |-> name,
                                             outcome |-> outcome,
                                             detail |-> detail])],
              name, outcome)

(* await self.session_manager.set_...(session_context.session_id, ...) *)
SetState(m, sid, state) ==
    Wrote(m, "set_conversation_state",
          set_conversation_state(m.store, sid, state, Up(m)))
SetLocation(m, sid, location_type, location_data) ==
    Wrote(m, "set_location_data",
          set_location_data(m.store, sid, location_type, location_data,
                            Up(m)))
SetPhone(m, sid, phone_number) ==
    Wrote(m, "set_phone_number",
          set_phone_number(m.store, sid, phone_number, Up(m)))
SetRide(m, sid, ride_details) ==
    Wrote(m, "set_ride_details",
          set_ride_details(m.store, sid, ride_details, Up(m)))

Reply(text, arg) == [text |-> text, arg |-> arg]

Handled(m, response, ctx) == [m |-> m, response |-> response, ctx |-> ctx]

_handle_greeting(m, user_input, ctx) ==
    Handled(SetState(m, ctx.session_id, ASKING_PICKUP),
            Reply("welcome_ask_pickup", ""),
            [ctx EXCEPT !.state = ASKING_PICKUP])

(* A pickup handler that goes straight to asking_phone when a drop location
   is already known. *)
_handle_pickup_location_skipping(m, user_input, ctx, env) ==
    LET m1 == Calling(m, "resolve_location", env.resolver, "")
        next == IF Truthy(ctx.drop_location) THEN ASKING_PHONE
                ELSE ASKING_DROP
    IN
    IF env.resolver = "raise"
    THEN Handled(m1, Reply("pickup_error", ""), ctx)
    ELSE IF env.resolver = "absent"
    THEN Handled(m1, Reply("pickup_retry", ""), ctx)
    ELSE Handled(SetState(SetLocation(m1, ctx.session_id, "pickup_location",
                                      AsDict(env.resolver)),
                          ctx.session_id, next),
                 Reply("pickup_set_ask_drop", env.resolver),
                 [ctx EXCEPT !.pickup_location = AsDict(env.resolver),
                             !.state = next])

(* A pickup handler that advances although the resolver found nothing. *)
_handle_pickup_location_unresolved(m, user_input, ctx, env) ==
    LET m1 == Calling(m, "resolve_location", env.resolver, "") IN
    IF env.resolver = "raise"
    THEN Handled(m1, Reply("pickup_error", ""), ctx)
    ELSE IF env.resolver = "absent"
    THEN Handled(SetState(m1, ctx.session_id, ASKING_DROP),
                 Reply("pickup_set_ask_drop", env.resolver),
                 [ctx EXCEPT !.state = ASKING_DROP])
    ELSE Handled(SetState(SetLocation(m1, ctx.session_id, "pickup_location",
                                      AsDict(env.resolver)),
                          ctx.session_id, ASKING_DROP),
                 Reply("pickup_set_ask_drop", env.resolver),
                 [ctx EXCEPT !.pickup_location = AsDict(env.resolver),
                             !.state = ASKING_DROP])

_handle_pickup_location(m, user_input, ctx, env) ==
    LET m1 == Calling(m, "resolve_location", env.resolver, "") IN
    IF env.resolver = "raise"
    THEN Handled(m1, Reply("pickup_error", ""), ctx)
    ELSE IF env.resolver = "absent"
    THEN Handled(m1, Reply("pickup_retry", ""), ctx)
    ELSE Handled(SetState(SetLocation(m1, ctx.session_id, "pickup_location",
                                      AsDict(env.resolver)),
                          ctx.session_id, ASKING_DROP),
                 Reply("pickup_set_ask_drop", env.resolver),
                 [ctx EXCEPT !.pickup_location = AsDict(env.resolver),
                             !.state = ASKING_DROP])

(* A drop handler that sets the next state before it resolves the location. *)
_handle_drop_location_state_first(m, user_input, ctx, env) ==
    LET m1 == Calling(SetState(m, ctx.session_id, ASKING_PHONE),
                      "resolve_location", env.resolver, "")
    IN
    IF env.resolver = "raise"
    THEN Handled(m1, Reply("drop_error", ""), ctx)
    ELSE IF env.resolver = "absent"
    THEN Handled(m1, Reply("drop_retry", ""), ctx)
    ELSE Handled(SetLocation(m1, ctx.session_id, "drop_location",
                             AsDict(env.resolver)),
                 Reply("drop_set_ask_phone", env.resolver),
                 [ctx EXCEPT !.drop_location = AsDict(env.resolver),
                             !.state = ASKING_PHONE])

_handle_drop_location(m, user_input, ctx, env) ==
    LET m1 == Calling(m, "resolve_location", env.resolver, "") IN
    IF env.resolver = "raise"
    THEN Handled(m1, Reply("drop_error", ""), ctx)
    ELSE IF env.resolver = "absent"
    THEN Handled(m1, Reply("drop_retry", ""), ctx)
    ELSE Handled(SetState(SetLocation(m1, ctx.session_id, "drop_location",
                                      AsDict(env.resolver)),
                          ctx.session_id, ASKING_PHONE),
                 Reply("drop_set_ask_phone", env.resolver),
                 [ctx EXCEPT !.drop_location = AsDict(env.resolver),
                             !.state = ASKING_PHONE])

Booked(m, success, ride_id, ride_details, error) ==
    [m |-> m, success |-> success, ride_id |-> ride_id,
     ride_details |-> ride_details, error |-> error]

(* A guard that looks at the phone number only. *)
PhoneNumberPresent(ctx) == ctx.phone_number # NoPhone

(* all([pickup_location, drop_location, phone_number]) *)
BookingInformationPresent(ctx) ==
    /\ Truthy(ctx.pickup_location)
    /\ Truthy(ctx.drop_location)
    /\ ctx.phone_number # NoPhone

(* The create call as the turn's log records it: the request, when it was
   posted, and then how create_ride ended. *)
Attempted(m, result_, http) ==
    Calling(IF result_.sent
            THEN Calling(m, "POST create-admin-ride", http, "")
            ELSE m,
            "create_ride", result_.ret, result_.error)

(* A booking that reports every failed create call as 'Unknown error'. *)
_create_ride_booking_hiding_error(m, ctx, env) ==
    IF ~BookingInformationPresent(ctx)
    THEN Booked(m, FALSE, NullRideId, AsNone(NoRideDetails), ERR_MISSING)
    ELSE Booked(Attempted(m, create_ride(ctx.phone_number,
                                         ctx.pickup_location,
                                         ctx.drop_location, env.http,
                                         env.ride_id), env.http),
                FALSE, NullRideId, AsNone(NoRideDetails), ERR_UNKNOWN)

(* A booking that calls create_ride a second time when the first call
   raises. *)
_create_ride_booking_retrying(m, ctx, env) ==
    LET Twice(result_) ==
            Booked(IF result_.ret = "raise"
                   THEN Attempted(Attempted(m, result_, env.http), result_,
                                  env.http)
                   ELSE Attempted(m, result_, env.http),
                   FALSE, NullRideId, AsNone(NoRideDetails), result_.error)
    IN
    IF ~BookingInformationPresent(ctx)
    THEN Booked(m, FALSE, NullRideId, AsNone(NoRideDetails), ERR_MISSING)
    ELSE Twice(create_ride(ctx.phone_number, ctx.pickup_location,
                           ctx.drop_location, env.http, env.ride_id))

_create_ride_booking(m, ctx, env) ==
    LET Returned(m1, result_, ride_details) ==
            IF result_.ret = "raise"
            THEN Booked(m1, FALSE, NullRideId, AsNone(NoRideDetails),
                        result_.error)
            ELSE IF result_.success
            THEN Booked(SetRide(m1, ctx.session_id, ride_details), TRUE,
                        result_.ride_id, ride_details, "")
            ELSE Booked(m1, FALSE, NullRideId, AsNone(NoRideDetails),
                        ERR_UNKNOWN)
        Called(result_) ==
            Returned(Attempted(m, result_, env.http), result_,
                     AsDict(RideDetailsOf(result_.ride_id,
                                          Dump(ctx.pickup_location),
                                          Dump(ctx.drop_location),
                                          ctx.phone_number)))
    IN
    IF ~BookingInformationPresent(ctx)
    THEN Booked(m, FALSE, NullRideId, AsNone(NoRideDetails), ERR_MISSING)
    ELSE Called(create_ride(ctx.phone_number, ctx.pickup_location,
                            ctx.drop_location, env.http, env.ride_id))

(* A phone handler that moves to ride_created whatever the booking
   returned. *)
_handle_phone_number_ignoring_failure(m, user_input, ctx, env) ==
    LET Answered(ctx1, ride_result) ==
            Handled(SetState(ride_result.m, ctx.session_id, RIDE_CREATED),
                    Reply("ride_requested", ToString(ride_result.ride_id)),
                    [ctx1 EXCEPT !.state = RIDE_CREATED])
        Accepted(phone_number, ctx1) ==
            Answered(ctx1,
                     _create_ride_booking(
                         SetPhone(m, ctx.session_id, phone_number), ctx1, env))
        Heard(digits) ==
            IF Len(digits) < PhoneDigits
            THEN Handled(m, Reply("phone_invalid", ""), ctx)
            ELSE Accepted(LastDigits(digits),
                          [ctx EXCEPT !.phone_number = LastDigits(digits)])
    IN  Heard(ExtractDigits(user_input))

(* A handler that requests the ride first and saves the number after. *)
_handle_phone_number_booking_first(m, user_input, ctx, env) ==
    LET Saved(ride_result) ==
            [ride_result EXCEPT
                !.m = SetPhone(@, ctx.session_id,
                               LastDigits(ExtractDigits(user_input)))]
        Answered(ctx1, ride_result) ==
            IF ride_result.success
            THEN Handled(SetState(ride_result.m, ctx.session_id,
                                  RIDE_CREATED),
                         Reply("ride_requested",
                               ToString(ride_result.ride_id)),
                         [ctx1 EXCEPT !.state = RIDE_CREATED,
                                      !.ride_details =
                                          ride_result.ride_details])
            ELSE Handled(ride_result.m,
                         Reply("booking_failed", ride_result.error), ctx1)
        Heard(digits) ==
            IF Len(digits) < PhoneDigits
            THEN Handled(m, Reply("phone_invalid", ""), ctx)
            ELSE Answered([ctx EXCEPT !.phone_number = LastDigits(digits)],
                          Saved(_create_ride_booking(
                                    m,
                                    [ctx EXCEPT !.phone_number =
                                                    LastDigits(digits)],
                                    env)))
    IN  Heard(ExtractDigits(user_input))

_handle_phone_number(m, user_input, ctx, env) ==
    LET Answered(ctx1, ride_result) ==
            IF ride_result.success
            THEN Handled(SetState(ride_result.m, ctx.session_id,
                                  RIDE_CREATED),
                         Reply("ride_requested",
                               ToString(ride_result.ride_id)),
                         [ctx1 EXCEPT !.state = RIDE_CREATED,
                                      !.ride_details =
                                          ride_result.ride_details])
            ELSE Handled(ride_result.m,
                         Reply("booking_failed", ride_result.error), ctx1)
        Accepted(phone_number, ctx1) ==
            Answered(ctx1,
                     _create_ride_booking(
                         SetPhone(m, ctx.session_id, phone_number), ctx1, env))
        Heard(digits) ==
            IF Len(digits) < PhoneDigits
            THEN Handled(m, Reply("phone_invalid", ""), ctx)
            ELSE Accepted(LastDigits(digits),
                          [ctx EXCEPT !.phone_number = LastDigits(digits)])
    IN  Heard(ExtractDigits(user_input))

(* A confirmation handler that sends the caller back to asking_phone
   instead of taking the phone number. *)
_handle_ride_confirmation_asking_again(m, user_input, ctx, env) ==
    Handled(SetState(m, ctx.session_id, ASKING_PHONE),
            Reply("phone_invalid", ""),
            [ctx EXCEPT !.state = ASKING_PHONE])

_handle_ride_confirmation(m, user_input, ctx, env) ==
    _handle_phone_number(m, user_input, ctx, env)

(* ride_details and ride_details.get('ride_id'): a RideDetails instance has
   no get, so the handler's except clause answers. *)
RideIdLookup(ctx) ==
    IF ~Truthy(ctx.ride_details) THEN "falsy"
    ELSE IF ~Subscriptable(ctx.ride_details) THEN "raise"
    ELSE IF Dump(ctx.ride_details).ride_id \in {NullRideId, 0} THEN "falsy"
    ELSE "truthy"

(* A post-ride handler that tests the new/another group first. *)
_handle_post_ride_actions_new_first(m, user_input, ctx, env) ==
    LET user_input_lower == Lower(user_input)
        ride_id == Dump(ctx.ride_details).ride_id
        fallback == Reply("post_ride_menu", "")
        excepted == Reply("post_ride_error", "")
    IN
    IF Contains(user_input_lower, KW_new)
       \/ Contains(user_input_lower, KW_another)
    THEN
        Handled(SetState(m, ctx.session_id, ASKING_PICKUP),
                Reply("new_ride_ask_pickup", ""),
                [ctx EXCEPT !.state = ASKING_PICKUP])
    ELSE IF Contains(user_input_lower, KW_status)
            \/ Contains(user_input_lower, KW_driver)
    THEN
        CASE RideIdLookup(ctx) = "raise" -> Handled(m, excepted, ctx)
          [] RideIdLookup(ctx) = "falsy" -> Handled(m, fallback, ctx)
          [] OTHER ->
                LET status_result == get_ride_status(ride_id, env.status)
                    m1 == Calling(m, "get_ride_status", status_result.ret,
                                  status_result.data)
                IN  IF status_result.data = "not_a_dict"
                    THEN Handled(m1, excepted, ctx)
                    ELSE Handled(m1, Reply("driver_info",
                                           status_result.data), ctx)
    ELSE IF Contains(user_input_lower, KW_cancel)
    THEN
        CASE RideIdLookup(ctx) = "raise" -> Handled(m, excepted, ctx)
          [] RideIdLookup(ctx) = "falsy" -> Handled(m, fallback, ctx)
          [] OTHER ->
                LET cancel_result == cancel_ride(ride_id, env.cancel)
                    m1 == Calling(m, "cancel_ride", cancel_result.ret, "")
                IN  IF cancel_result.ret = "raise"
                    THEN Handled(m1, excepted, ctx)
                    ELSE
                        Handled(SetState(m1, ctx.session_id, GREETING),
                                Reply("ride_cancelled", ""),
                                [ctx EXCEPT !.state = GREETING])
    ELSE Handled(m, fallback, ctx)

(* A post-ride handler that forgets the phone number when a new booking
   starts. *)
_handle_post_ride_actions_resetting(m, user_input, ctx, env) ==
    LET user_input_lower == Lower(user_input)
        ride_id == Dump(ctx.ride_details).ride_id
        fallback == Reply("post_ride_menu", "")
        excepted == Reply("post_ride_error", "")
    IN
    IF Contains(user_input_lower, KW_status)
       \/ Contains(user_input_lower, KW_driver)
    THEN
        CASE RideIdLookup(ctx) = "raise" -> Handled(m, excepted, ctx)
          [] RideIdLookup(ctx) = "falsy" -> Handled(m, fallback, ctx)
          [] OTHER ->
                LET status_result == get_ride_status(ride_id, env.status)
                    m1 == Calling(m, "get_ride_status", status_result.ret,
                                  status_result.data)
                IN  IF status_result.data = "not_a_dict"
                    THEN Handled(m1, excepted, ctx)
                    ELSE Handled(m1, Reply("driver_info",
                                           status_result.data), ctx)
    ELSE IF Contains(user_input_lower, KW_cancel)
    THEN
        CASE RideIdLookup(ctx) = "raise" -> Handled(m, excepted, ctx)
          [] RideIdLookup(ctx) = "falsy" -> Handled(m, fallback, ctx)
          [] OTHER ->
                LET cancel_result == cancel_ride(ride_id, env.cancel)
                    m1 == Calling(m, "cancel_ride", cancel_result.ret, "")
                IN  IF cancel_result.ret = "raise"
                    THEN Handled(m1, excepted, ctx)
                    ELSE
                        Handled(SetState(m1, ctx.session_id, GREETING),
                                Reply("ride_cancelled", ""),
                                [ctx EXCEPT !.state = GREETING])
    ELSE IF Contains(user_input_lower, KW_new)
            \/ Contains(user_input_lower, KW_another)
    THEN
        Handled(SetState(SetPhone(m, ctx.session_id, NoPhone),
                         ctx.session_id, ASKING_PICKUP),
                Reply("new_ride_ask_pickup", ""),
                [ctx EXCEPT !.state = ASKING_PICKUP,
                            !.phone_number = NoPhone])
    ELSE Handled(m, fallback, ctx)

(* A post-ride handler that marks the ride completed when the status
   lookup fails. *)
_handle_post_ride_actions_completing(m, user_input, ctx, env) ==
    LET user_input_lower == Lower(user_input)
        ride_id == Dump(ctx.ride_details).ride_id
        fallback == Reply("post_ride_menu", "")
        excepted == Reply("post_ride_error", "")
    IN
    IF Contains(user_input_lower, KW_status)
       \/ Contains(user_input_lower, KW_driver)
    THEN
        CASE RideIdLookup(ctx) = "raise" ->
                Handled(SetState(m, ctx.session_id, COMPLETED), excepted,
                        [ctx EXCEPT !.state = COMPLETED])
          [] RideIdLookup(ctx) = "falsy" -> Handled(m, fallback, ctx)
          [] OTHER ->
                LET status_result == get_ride_status(ride_id, env.status)
                    m1 == Calling(m, "get_ride_status", status_result.ret,
                                  status_result.data)
                IN  IF status_result.data = "not_a_dict"
                    THEN Handled(m1, excepted, ctx)
                    ELSE Handled(m1, Reply("driver_info",
                                           status_result.data), ctx)
    ELSE IF Contains(user_input_lower, KW_cancel)
    THEN
        CASE RideIdLookup(ctx) = "raise" -> Handled(m, excepted, ctx)
          [] RideIdLookup(ctx) = "falsy" -> Handled(m, fallback, ctx)
          [] OTHER ->
                LET cancel_result == cancel_ride(ride_id, env.cancel)
                    m1 == Calling(m, "cancel_ride", cancel_result.ret, "")
                IN  IF cancel_result.ret = "raise"
                    THEN Handled(m1, excepted, ctx)
                    ELSE
                        Handled(SetState(m1, ctx.session_id, GREETING),
                                Reply("ride_cancelled", ""),
                                [ctx EXCEPT !.state = GREETING])
    ELSE IF Contains(user_input_lower, KW_new)
            \/ Contains(user_input_lower, KW_another)
    THEN
        Handled(SetState(m, ctx.session_id, ASKING_PICKUP),
                Reply("new_ride_ask_pickup", ""),
                [ctx EXCEPT !.state = ASKING_PICKUP])
    ELSE Handled(m, fallback, ctx)

_handle_post_ride_actions(m, user_input, ctx, env) ==
    LET user_input_lower == Lower(user_input)
        ride_id == Dump(ctx.ride_details).ride_id
        fallback == Reply("post_ride_menu", "")
        excepted == Reply("post_ride_error", "")
    IN
    IF Contains(user_input_lower, KW_status)
       \/ Contains(user_input_lower, KW_driver)
    THEN
        CASE RideIdLookup(ctx) = "raise" -> Handled(m, excepted, ctx)
          [] RideIdLookup(ctx) = "falsy" -> Handled(m, fallback, ctx)
          [] OTHER ->
                LET status_result == get_ride_status(ride_id, env.status)
                    m1 == Calling(m, "get_ride_status", status_result.ret,
                                  status_result.data)
                IN  IF status_result.data = "not_a_dict"
                    THEN Handled(m1, excepted, ctx)
                    ELSE Handled(m1, Reply("driver_info",
                                           status_result.data), ctx)
    ELSE IF Contains(user_input_lower, KW_cancel)
    THEN
        CASE RideIdLookup(ctx) = "raise" -> Handled(m, excepted, ctx)
          [] RideIdLookup(ctx) = "falsy" -> Handled(m, fallback, ctx)
          [] OTHER ->
                LET cancel_result == cancel_ride(ride_id, env.cancel)
                    m1 == Calling(m, "cancel_ride", cancel_result.ret, "")
                IN  IF cancel_result.ret = "raise"
                    THEN Handled(m1, excepted, ctx)
                    ELSE
                        Handled(SetState(m1, ctx.session_id, GREETING),
                                Reply("ride_cancelled", ""),
                                [ctx EXCEPT !.state = GREETING])
    ELSE IF Contains(user_input_lower, KW_new)
            \/ Contains(user_input_lower, KW_another)
    THEN
        Handled(SetState(m, ctx.session_id, ASKING_PICKUP),
                Reply("new_ride_ask_pickup", ""),
                [ctx EXCEPT !.state = ASKING_PICKUP])
    ELSE Handled(m, fallback, ctx)

(* A dispatcher without the fallback for states that have no handler. *)
_process_conversation_logic_without_fallback(m, user_input, ctx, env) ==
    CASE ctx.state = GREETING -> _handle_greeting(m, user_input, ctx)
      [] ctx.state = ASKING_PICKUP ->
            _handle_pickup_location(m, user_input, ctx, env)
      [] ctx.state = ASKING_DROP ->
            _handle_drop_location(m, user_input, ctx, env)
      [] ctx.state = ASKING_PHONE ->
            _handle_phone_number(m, user_input, ctx, env)
      [] ctx.state = CONFIRMING_RIDE ->
            _handle_ride_confirmation(m, user_input, ctx, env)
      [] ctx.state = RIDE_CREATED ->
            _handle_post_ride_actions(m, user_input, ctx, env)
      [] OTHER -> Handled(m, Reply("post_ride_menu", ""), ctx)

_process_conversation_logic(m, user_input, ctx, env) ==
    CASE ctx.state = GREETING -> _handle_greeting(m, user_input, ctx)
      [] ctx.state = ASKING_PICKUP ->
            _handle_pickup_location(m, user_input, ctx, env)
      [] ctx.state = ASKING_DROP ->
            _handle_drop_location(m, user_input, ctx, env)
      [] ctx.state = ASKING_PHONE ->
            _handle_phone_number(m, user_input, ctx, env)
      [] ctx.state = CONFIRMING_RIDE ->
            _handle_ride_confirmation(m, user_input, ctx, env)
      [] ctx.state = RIDE_CREATED ->
            _handle_post_ride_actions(m, user_input, ctx, env)
      [] OTHER -> _handle_greeting(m, user_input, ctx)

----------------------------------------------------------------------------
(* ConversationService.process_chat_message: one text turn *)

(* A creation that skips the greeting. *)
create_session_asking_pickup(st, id, up) ==
    IF ~up THEN [store |-> st, ret |-> "raise", session_id |-> NoId]
    ELSE [store |-> Put(st, id, Named(id, [NewSession EXCEPT
                                              !.state = ASKING_PICKUP])),
          ret |-> "ok", session_id |-> id]

create_session(st, id, up) ==
    IF ~up THEN [store |-> st, ret |-> "raise", session_id |-> NoId]
    ELSE [store |-> Put(st, id, Named(id, NewSession)), ret |-> "ok",
          session_id |-> id]

Created(m, r) ==
    IF Halted(m) THEN m
    ELSE Step([m EXCEPT !.store = r.store, !.k = @ + 1,
                        !.issued = IF r.ret = "ok" THEN @ \cup {r.session_id}
                                   ELSE @],
              "create_session", r.ret)

Fetched(m) ==
    IF Halted(m) THEN m
    ELSE Step([m EXCEPT !.k = @ + 1], "get_session",
              IF Up(m) THEN "return" ELSE "raise")

Resolved(m, ret, ctx) == [m |-> m, ret |-> ret, ctx |-> ctx]

(* uuid4: an identifier that was never handed out *)
FreshId(ids, used) == CHOOSE id \in ids : id \notin used

(* Lines 41-50: the session the turn works on.  "raise" is the
   SessionException of create_session or get_session; "no_id" is the model
   running out of identifiers. *)
CreateAndGet(m) ==
    LET Got(m2, got) == Resolved(m2, got.ret, got.ctx)
        Opened(m1, made) ==
            IF made.ret = "raise" THEN Resolved(m1, "raise", NoContext)
            ELSE Got(Fetched(m1),
                     get_session(m1.store, made.session_id, Up(m1)))
        Make(made) == Opened(Created(m, made), made)
    IN
    IF m.ids \subseteq m.issued THEN Resolved(m, "no_id", NoContext)
    ELSE Make(create_session(m.store, FreshId(m.ids, m.issued), Up(m)))

(* A resolution that brings a lapsed session back under the identifier the
   caller supplied. *)
ResolveSession_reviving_the_id(m, session_id) ==
    LET Got(m2, got) == Resolved(m2, got.ret, got.ctx)
        Opened(m1, made) ==
            IF made.ret = "raise" THEN Resolved(m1, "raise", NoContext)
            ELSE Got(Fetched(m1),
                     get_session(m1.store, made.session_id, Up(m1)))
        Revive(m0, made) == Opened(Created(m0, made), made)
        Again(m0) ==
            IF session_id \in m0.issued
            THEN Revive(m0, create_session(m0.store, session_id, Up(m0)))
            ELSE CreateAndGet(m0)
        First(got) ==
            IF got.ret = "absent" THEN Again(Fetched(m))
            ELSE Resolved(Fetched(m), got.ret, got.ctx)
    IN
    IF session_id = NoId THEN CreateAndGet(m)
    ELSE First(get_session(m.store, session_id, Up(m)))

ResolveSession(m, session_id) ==
    LET Got(got) ==
            IF got.ret = "absent" THEN CreateAndGet(Fetched(m))
            ELSE Resolved(Fetched(m), got.ret, got.ctx)
    IN
    IF session_id = NoId THEN CreateAndGet(m)
    ELSE Got(get_session(m.store, session_id, Up(m)))

(* detect_language: what the detector answered ("raise" when it failed),
   mapped to a supported language, English by default. *)
detect_language(detected) ==
    IF detected \in {"ta", "ml", "en"} THEN detected ELSE "en"

(* translate_if_needed handing on what the failed translation left. *)
EnglishText_of_the_failed_call(message, env) ==
    IF detect_language(env.lang) \in {"ta", "ml"} THEN env.translated
    ELSE message

(* translate_if_needed(message, detected_language, to_english=True): the
   translator's answer, or the text itself when it is not asked or fails. *)
EnglishText(message, env) ==
    IF detect_language(env.lang) \in {"ta", "ml"} /\ env.translated # <<>>
    THEN env.translated ELSE message

(* What became of the translation to English: not asked for English text,
   TranslationException ("raise") swallowed by translate_if_needed. *)
Inbound(env) ==
    IF detect_language(env.lang) \notin {"ta", "ml"} THEN "skipped"
    ELSE IF env.translated = <<>> THEN "raise" ELSE "return"

Outbound(env) ==
    IF detect_language(env.lang) \notin {"ta", "ml"} THEN "skipped"
    ELSE IF env.localized THEN "return" ELSE "raise"

(* translate_if_needed(response_text, detected_language, to_english=False) *)
Localize(response, env) ==
    [text |-> response.text, arg |-> response.arg,
     lang |-> IF detect_language(env.lang) \in {"ta", "ml"} /\ env.localized
              THEN detect_language(env.lang) ELSE "en"]

_get_next_action(ctx) ==
    CASE ctx.state = GREETING -> "provide_greeting"
      [] ctx.state = ASKING_PICKUP -> "provide_pickup_location"
      [] ctx.state = ASKING_DROP -> "provide_drop_location"
      [] ctx.state = ASKING_PHONE -> "provide_phone_number"
      [] ctx.state = CONFIRMING_RIDE -> "confirm_ride"
      [] ctx.state = RIDE_CREATED -> "ride_management"
      [] OTHER -> "new_booking"

(* One turn's inputs: the utterance, the language detected for it, the
   translator's work (translated = <<>> is a failed or unneeded inbound
   translation) and what each collaborator answers if it is asked.
   failAt = 0 is a turn in which no store call fails. *)
Scenario(message, lang, translated, localized, resolver, http, cancel, status) ==
    [message |-> message, lang |-> lang, translated |-> translated,
     localized |-> localized, resolver |-> resolver, http |-> http,
     ride_id |-> CHOOSE id \in RideIds : TRUE, cancel |-> cancel,
     status |-> status, failAt |-> 0, lasting |-> FALSE, cancelAt |-> 0]

English(message, resolver, http, cancel, status) ==
    Scenario(message, "en", <<>>, TRUE, resolver, http, cancel, status)

Scenarios ==
    {English(u, "absent", "ok", "ok", "ok") : u \in Messages}
    \cup {English(U_place, r, "ok", "ok", "ok") :
            r \in ResolverOutcomes \ {"absent"}}
    \cup {English(U_phone, "absent", h, "ok", "ok") :
            h \in HttpOutcomes \ {"ok"}}
    \cup {English(U_cancel, "absent", "ok", c, "ok") :
            c \in CancelOutcomes \ {"ok"}}
    \cup {English(U_status, "absent", "ok", "ok", s) :
            s \in StatusOutcomes \ {"ok"}}
    \cup {Scenario(U_tamil, l, t, d, "Ukkadam", "ok", "ok", "ok") :
            l \in DetectedLanguages \ {"en"},
            t \in Translations \cup {<<>>}, d \in BOOLEAN}

Machine(env, ids) ==
    [store |-> store, issued |-> issued, k |-> 0, failAt |-> env.failAt,
     lasting |-> env.lasting, cancelAt |-> env.cancelAt, calls |-> <<>>,
     steps |-> <<>>, ids |-> ids]

(* AIRideBookingException and the classes derived from it. *)
ExceptionFamily ==
    {"AIRideBookingException", "TranslationException",
     "SpeechProcessingException", "BedrockAgentException",
     "LocationResolutionException", "RideBookingAPIException",
     "SessionException", "ValidationException", "ConfigurationException"}

(* An except clause that lets a built-in exception through. *)
Reraised_as_builtin(exception) == "Exception"

(* except Exception as e: raise AIRideBookingException(f"... failed: ...") *)
Reraised(exception) == "AIRideBookingException"

Failed(m) == m.failAt \in 1..m.k

(* texts = FALSE leaves the two texts of the history entry out of the model
   (the entry is stored with empty texts); the specifications whose claims
   do not read them run that way. *)
Kept(texts, text) == IF texts THEN text ELSE NoText

(* CancelledError leaves the entry point: except Exception does not hold
   it (lines 87-89). *)
Cancelled ==
    [kind |-> "error", error |-> "CancelledError", store_failed |-> FALSE]

(* What the caller did: the turn it asked for, and the store call during
   which it gave the turn up, if it did. *)
Abandoned(env, asked) ==
    IF env.cancelAt = 0 THEN asked
    ELSE [cancelled_at |-> env.cancelAt] @@ asked

process_chat_message(session_id, env, limit, ids, texts) ==
    \E session \in {ResolveSession(Machine(env, ids), session_id)},
       english_text \in {EnglishText(env.message, env)} :
    /\ session.ret # "no_id"
    /\ request' = Abandoned(env, [op |-> "process_chat_message",
                                  session_id |-> session_id,
                                  message |-> env.message,
                                  english_text |-> english_text])
    /\ now' = now
    /\ inflight' = inflight
    /\ IF session.ret = "raise"
       THEN /\ store' = session.m.store
            /\ issued' = session.m.issued
            /\ appended' = appended
            /\ calls' = session.m.calls
            /\ steps' = session.m.steps
            /\ result' = IF Halted(session.m) THEN Cancelled
                         ELSE [kind |-> "error",
                               error |-> Reraised("SessionException"),
                               store_failed |-> TRUE]
       ELSE
            \E sid \in {IF session_id \in DOMAIN store THEN session_id
                         ELSE session.ctx.session_id},
               m0 \in {Step(Step(session.m, "detect_language",
                                 IF env.lang = "raise" THEN "raise"
                                 ELSE "return"),
                            "translate_to_english", Inbound(env))} :
            \E handled \in {_process_conversation_logic(
                                m0, english_text, session.ctx, env)} :
            \E final_response \in {Localize(handled.response, env)},
               m1 \in {Step(handled.m, "translate_from_english",
                            Outbound(env))} :
            \E added \in {add_conversation_entry(
                              m1.store, sid, Kept(texts, env.message),
                              Kept(texts, final_response),
                              appended[sid], Up(m1))} :
            \E m2 \in {Wrote(m1, "add_conversation_entry", added)} :
            \E m3 \in {Wrote(m2, "extend_session",
                              extend_session(m2.store, sid, Up(m2)))} :
            /\ appended[sid] < limit
            /\ store' = m3.store
            /\ issued' = m3.issued
            /\ appended' = [appended EXCEPT
                               ![sid] = IF added.ret /\ ~Halted(m2)
                                        THEN @ + 1 ELSE @]
            /\ calls' = m3.calls
            /\ steps' = m3.steps
            /\ result' = IF Halted(m3) THEN Cancelled
                         ELSE
                         [kind |-> "result",
                          response |-> final_response,
                          session_id |-> sid,
                          detected_language |-> detect_language(env.lang),
                          conversation_state |-> handled.ctx.state,
                          ride_details |-> Dump(handled.ctx.ride_details),
                          next_action |-> _get_next_action(handled.ctx),
                          store_failed |-> Failed(m3)]

(* speech_to_text: Whisper's transcript and the language it names, mapped
   to a supported language, English by default; any failure is raised as
   SpeechProcessingException. *)
WhisperLanguage(language) ==
    CASE language \in {"en", "english"} -> "en"
      [] language \in {"ta", "tamil"} -> "ta"
      [] language \in {"ml", "malayalam"} -> "ml"
      [] OTHER -> "en"

speech_to_text(env) ==
    [ret |-> IF env.stt = "ok" THEN "return" ELSE "raise",
     transcribed_text |-> env.message,
     detected_language |-> WhisperLanguage(env.lang)]

(* The handler of a voice turn given the transcript as it was heard. *)
VoiceText_untranslated(heard, spoken) == heard.transcribed_text

(* Lines 119-121: translate_if_needed(transcribed_text, detected_language,
   to_english=True). *)
VoiceText(heard, spoken) == EnglishText(heard.transcribed_text, spoken)

(* Lines 108-109: a voice turn given no identifier creates its session
   before anything else. *)
OpenIfUnnamed(m, session_id) ==
    LET Make(made) ==
            [m |-> Created(m, made), ret |-> made.ret,
             session_id |-> made.session_id]
    IN
    IF session_id # NoId
    THEN [m |-> m, ret |-> "ok", session_id |-> session_id]
    ELSE IF m.ids \subseteq m.issued
    THEN [m |-> m, ret |-> "no_id", session_id |-> NoId]
    ELSE Make(create_session(m.store, FreshId(m.ids, m.issued), Up(m)))

(* The turn ends in the except clause of the entry point. *)
Failing(m, exception) ==
    /\ store' = m.store
    /\ issued' = m.issued
    /\ appended' = appended
    /\ calls' = m.calls
    /\ steps' = m.steps
    /\ result' = [kind |-> "error", error |-> Reraised(exception),
                  store_failed |-> Failed(m)]

process_voice_input(session_id, env, limit, ids, texts) ==
    \E opened \in {OpenIfUnnamed(Machine(env, ids), session_id)},
       heard \in {speech_to_text(env)} :
    \E spoken \in {[env EXCEPT !.lang = heard.detected_language]} :
    \E english_text \in {VoiceText(heard, spoken)} :
    /\ opened.ret # "no_id"
    /\ request' = [op |-> "process_voice_input", session_id |-> session_id,
                   message |-> env.message, english_text |-> english_text]
    /\ now' = now
    /\ inflight' = inflight
    /\ IF opened.ret = "raise" THEN Failing(opened.m, "SessionException")
       ELSE IF heard.ret = "raise"
       THEN Failing(Step(opened.m, "speech_to_text", "raise"),
                    "SpeechProcessingException")
       ELSE
            \E session \in {ResolveSession(
                                Step(Step(opened.m, "speech_to_text",
                                          "return"),
                                     "translate_to_english", Inbound(spoken)),
                                opened.session_id)} :
            /\ session.ret # "no_id"
            /\ IF session.ret = "raise"
               THEN Failing(session.m, "SessionException")
               ELSE
                \E sid \in {IF opened.session_id \in DOMAIN opened.m.store
                             THEN opened.session_id
                             ELSE session.ctx.session_id},
                   handled \in {_process_conversation_logic(
                                    session.m, english_text, session.ctx,
                                    spoken)} :
                \E final_response \in {Localize(handled.response, spoken)},
                   m1 \in {Step(Step(handled.m, "translate_from_english",
                                     Outbound(spoken)),
                                "text_to_speech",
                                IF env.tts = "ok" THEN "return"
                                ELSE "raise")} :
                IF env.tts # "ok"
                THEN Failing(m1, "SpeechProcessingException")
                ELSE
                \E added \in {add_conversation_entry(
                                  m1.store, sid,
                                  Kept(texts, heard.transcribed_text),
                                  Kept(texts, final_response),
                                  appended[sid], Up(m1))} :
                \E m2 \in {Wrote(m1, "add_conversation_entry", added)} :
                \E m3 \in {Wrote(m2, "extend_session",
                                  extend_session(m2.store, sid, Up(m2)))} :
                /\ appended[sid] < limit
                /\ store' = m3.store
                /\ issued' = m3.issued
                /\ appended' = [appended EXCEPT
                                   ![sid] = IF added.ret THEN @ + 1 ELSE @]
                /\ calls' = m3.calls
                /\ steps' = m3.steps
                /\ result' = [kind |-> "result",
                              response |-> final_response,
                              audio_response_path |-> "tts_file",
                              session_id |-> sid,
                              detected_language |-> heard.detected_language,
                              original_text |-> heard.transcribed_text,
                              conversation_state |-> handled.ctx.state,
                              ride_details |->
                                  Dump(handled.ctx.ride_details),
                              store_failed |-> Failed(m3)]

(* A caller knows the identifiers it was given, and can make one up; an
   identifier create_session has yet to draw cannot be guessed (line 61). *)
SuppliedIds == issued \cup {NoId, UnknownId}

ChatTurn ==
    \E session_id \in SuppliedIds, env \in Scenarios :
        process_chat_message(session_id, env, MaxAppends, SessionIds, FALSE)

----------------------------------------------------------------------------
(* SessionManager's operations called directly *)

ApiReturn(op, session_id, ret) ==
    /\ request' = [op |-> op, session_id |-> session_id]
    /\ result' = [kind |-> "api", ret |-> ret]
    /\ calls' = <<>>
    /\ steps' = <<>>
    /\ now' = now
    /\ inflight' = inflight

CreateSession ==
    /\ ~(SessionIds \subseteq issued)
    /\ LET made == create_session(store, FreshId(SessionIds, issued), TRUE) IN
        /\ store' = made.store
        /\ issued' = issued \cup {made.session_id}
        /\ ApiReturn("create_session", made.session_id, TRUE)
    /\ UNCHANGED appended

SetConversationState ==
    \E sid \in SessionIds, state \in ConversationState :
        LET r == set_conversation_state(store, sid, state, TRUE) IN
        /\ store' = r.store
        /\ ApiReturn("set_conversation_state", sid, r.ret)
        /\ UNCHANGED <<issued, appended>>

SetLocationData ==
    \E sid \in SessionIds,
       location_type \in {"pickup_location", "drop_location"},
       location \in Locations :
        LET r == set_location_data(store, sid, location_type,
                                   AsDict(location), TRUE) IN
        /\ store' = r.store
        /\ ApiReturn("set_location_data", sid, r.ret)
        /\ UNCHANGED <<issued, appended>>

SetPhoneNumber ==
    \E sid \in SessionIds :
        LET r == set_phone_number(store, sid,
                                  LastDigits(ExtractDigits(U_phone)), TRUE) IN
        /\ store' = r.store
        /\ ApiReturn("set_phone_number", sid, r.ret)
        /\ UNCHANGED <<issued, appended>>

SetRideDetails ==
    \E sid \in SessionIds, id \in RideIds \cup {NullRideId} :
        LET r == set_ride_details(store, sid,
                     AsDict(RideDetailsOf(id, "Ukkadam", "Gandhipuram",
                                LastDigits(ExtractDigits(U_phone)))), TRUE) IN
        /\ store' = r.store
        /\ ApiReturn("set_ride_details", sid, r.ret)
        /\ UNCHANGED <<issued, appended>>

AppendEntry(limit) ==
    \E sid \in SessionIds :
        LET r == add_conversation_entry(store, sid, NoText, NoText,
                                        appended[sid], TRUE) IN
        /\ appended[sid] < limit
        /\ store' = r.store
        /\ appended' = [appended EXCEPT ![sid] = IF r.ret THEN @ + 1 ELSE @]
        /\ ApiReturn("add_conversation_entry", sid, r.ret)
        /\ UNCHANGED issued

AddConversationEntry == AppendEntry(MaxAppends)

(* delete_session: result > 0 *)
DeleteSession ==
    \E sid \in SessionIds :
        /\ store' = Remove(store, sid)
        /\ ApiReturn("delete_session", sid, sid \in DOMAIN store)
        /\ UNCHANGED <<issued, appended>>

----------------------------------------------------------------------------
(* Specifications *)

NoRequest == [op |-> "none", session_id |-> NoId]
NoResult == [kind |-> "none"]

Init ==
    /\ store = <<>>
    /\ issued = {}
    /\ appended = [sid \in SessionIds |-> 0]
    /\ request = NoRequest
    /\ result = NoResult
    /\ calls = <<>>
    /\ steps = <<>>
    /\ now = 0
    /\ inflight = Idle

Next ==
    \/ ChatTurn
    \/ CreateSession
    \/ SetConversationState
    \/ SetLocationData
    \/ SetPhoneNumber
    \/ SetRideDetails
    \/ AddConversationEntry
    \/ DeleteSession

Spec == Init /\ [][Next]_vars

(* Turns and direct appends until the history has been trimmed *)
ChatTurnHistory ==
    \E session_id \in SuppliedIds, env \in Scenarios :
        process_chat_message(session_id, env, HistoryAppends, SessionIds,
                             FALSE)

AddConversationEntryHistory == AppendEntry(HistoryAppends)

NextHistory ==
    \/ CreateSession
    \/ ChatTurnHistory
    \/ AddConversationEntryHistory

SpecHistory == Init /\ [][NextHistory]_vars

(* Utterances around the ten-digit threshold: nine digits with a separator
   inside, and up to MaxAffix characters before and after them. *)
PhoneBody == <<"1", "2", "3", "4", "5", "-", "6", "7", "8", "9">>
AffixChars == {"0", "x"}
Affixes == UNION {[1..n -> AffixChars] : n \in 0..MaxAffix}
PhoneUtterances == {h \o PhoneBody \o t : h \in Affixes, t \in Affixes}
                   \cup {U_phone, U_phone_cc, U_short}

PhoneSessions ==
    [session_id : SessionIds, state : {ASKING_PHONE, CONFIRMING_RIDE},
     pickup_location : {"Ukkadam", NoLocation},
     drop_location : {"Gandhipuram"},
     phone_number : {NoPhone, LastDigits(ExtractDigits(U_phone))},
     ride_details : {NoRideDetails},
     conversation_history : {<<>>},
     created_at : {0}, updated_at : {0}, expires_at : {session_ttl}]

InitPhone ==
    /\ store \in {sid :> rec : sid \in SessionIds, rec \in PhoneSessions}
    /\ issued = SessionIds
    /\ appended = [sid \in SessionIds |-> 0]
    /\ request = NoRequest
    /\ result = NoResult
    /\ calls = <<>>
    /\ steps = <<>>
    /\ now = 0
    /\ inflight = Idle

PhoneTurn ==
    \E session_id \in SessionIds, u \in PhoneUtterances :
        process_chat_message(session_id,
                             English(u, "absent", "ok", "ok", "ok"),
                             MaxAppends, SessionIds, FALSE)

NextPhone == PhoneTurn

SpecPhone == InitPhone /\ [][NextPhone]_vars

(* The session store on its own: two identifiers, every operation of
   SessionManager on present, absent and unknown identifiers, an unreachable
   store at creation, and time passing until keys expire. *)
MoreSessionIds == {"session_1", "session_2"}
TargetIds == MoreSessionIds \cup {UnknownId}
WrittenIds == SessionIds \cup {UnknownId}

Raise(op, session_id) ==
    /\ request' = [op |-> op, session_id |-> session_id]
    /\ result' = [kind |-> "error", error |-> "SessionException",
                  store_failed |-> TRUE]
    /\ calls' = <<>>
    /\ steps' = <<>>
    /\ now' = now
    /\ inflight' = inflight

CreateSessionOrFail ==
    \E up \in BOOLEAN :
        /\ ~(MoreSessionIds \subseteq issued)
        /\ LET made == create_session(store,
                                      FreshId(MoreSessionIds, issued), up) IN
            /\ store' = made.store
            /\ IF made.ret = "raise"
               THEN /\ issued' = issued
                    /\ Raise("create_session", NoId)
               ELSE /\ issued' = issued \cup {made.session_id}
                    /\ ApiReturn("create_session", made.session_id, TRUE)
        /\ UNCHANGED appended

GetSession ==
    \E sid \in TargetIds :
        /\ ApiReturn("get_session", sid, get_session(store, sid, TRUE).ret)
        /\ UNCHANGED <<store, issued, appended>>

SessionUpdates ==
    {[phone_number |-> LastDigits(ExtractDigits(U_phone)),
      state |-> CONFIRMING_RIDE]}

UpdateSession ==
    \E sid \in WrittenIds, updates \in SessionUpdates :
        LET r == update_session(store, sid, updates, TRUE) IN
        /\ store' = r.store
        /\ ApiReturn("update_session", sid, r.ret = "true")
        /\ UNCHANGED <<issued, appended>>

Setter(op, sid, r) ==
    /\ store' = r.store
    /\ ApiReturn(op, sid, r.ret)
    /\ UNCHANGED <<issued, appended>>

SetAny ==
    \E sid \in WrittenIds :
        \/ Setter("set_conversation_state", sid,
                  set_conversation_state(store, sid, ASKING_PHONE, TRUE))
        \/ Setter("set_location_data", sid,
                  set_location_data(store, sid, "pickup_location",
                                    AsDict("Ukkadam"), TRUE))
        \/ Setter("set_phone_number", sid,
                  set_phone_number(store, sid,
                                   LastDigits(ExtractDigits(U_phone)), TRUE))
        \/ Setter("set_ride_details", sid,
                  set_ride_details(store, sid,
                      AsDict(RideDetailsOf(NullRideId, "Ukkadam", NoLocation,
                                           NoPhone)), TRUE))

AppendAny ==
    \E sid \in WrittenIds :
        LET n == IF sid \in DOMAIN appended THEN appended[sid] ELSE 0
            r == add_conversation_entry(store, sid, NoText, NoText, n, TRUE)
        IN
        /\ n < MaxAppends
        /\ store' = r.store
        /\ appended' = IF r.ret THEN [appended EXCEPT ![sid] = @ + 1]
                       ELSE appended
        /\ ApiReturn("add_conversation_entry", sid, r.ret)
        /\ UNCHANGED issued

ExtendSession ==
    \E sid \in TargetIds :
        LET r == extend_session(store, sid, TRUE) IN
        /\ store' = r.store
        /\ ApiReturn("extend_session", sid, r.ret)
        /\ UNCHANGED <<issued, appended>>

DeleteAny ==
    \E sid \in TargetIds :
        LET r == delete_session(store, sid, TRUE) IN
        /\ store' = r.store
        /\ ApiReturn("delete_session", sid, r.ret)
        /\ UNCHANGED <<issued, appended>>

(* Half a TTL window passes; the store drops the keys whose time is up. *)
Tick ==
    /\ now < MaxTicks * (session_ttl \div 2)
    /\ now' = now + session_ttl \div 2
    /\ inflight' = inflight
    /\ store' = [k \in {j \in DOMAIN store : store[j].expires_at > now'}
                    |-> store[k]]
    /\ request' = NoRequest
    /\ result' = NoResult
    /\ calls' = <<>>
    /\ steps' = <<>>
    /\ UNCHANGED <<issued, appended>>

ChatTurnAny ==
    \E session_id \in issued \cup {NoId, UnknownId} :
        process_chat_message(session_id,
                             English(U_ride, "absent", "ok", "ok", "ok"),
                             MaxAppends, MoreSessionIds, FALSE)

InitSessions ==
    /\ store = <<>>
    /\ issued = {}
    /\ appended = [sid \in MoreSessionIds |-> 0]
    /\ request = NoRequest
    /\ result = NoResult
    /\ calls = <<>>
    /\ steps = <<>>
    /\ now = 0
    /\ inflight = Idle

NextSessions ==
    \/ CreateSessionOrFail
    \/ GetSession
    \/ UpdateSession
    \/ SetAny
    \/ AppendAny
    \/ ExtendSession
    \/ DeleteAny
    \/ Tick

SpecSessions == InitSessions /\ [][NextSessions]_vars

(* Turns against the same store: the caller supplies no identifier, a live
   one, or one whose record was deleted or has expired. *)
NextResolve ==
    \/ CreateSessionOrFail
    \/ DeleteAny
    \/ Tick
    \/ ChatTurnAny

SpecResolve == InitSessions /\ [][NextResolve]_vars

(* update_session called with updates that name any field: the identifier,
   a field of the booking, or a name SessionContext does not have. *)
ArbitraryUpdates ==
    {[session_id |-> id] : id \in MoreSessionIds}
    \cup {[state |-> ASKING_PHONE], [user_rating |-> 5]}

UpdateFields ==
    \E sid \in TargetIds, updates \in ArbitraryUpdates :
        LET r == update_session(store, sid, updates, TRUE) IN
        /\ store' = r.store
        /\ ApiReturn("update_session", sid, r.ret = "true")
        /\ UNCHANGED <<issued, appended>>

NextUpdates ==
    \/ CreateSessionOrFail
    \/ UpdateFields
    \/ ChatTurnAny

SpecUpdates == InitSessions /\ [][NextUpdates]_vars

(* Turns during which the store cannot be reached: store call number failAt
   of the turn fails, and with a lasting outage every later one as well. *)
OutageScenarios ==
    {[English(u, "Ukkadam", "ok", "ok", "ok") EXCEPT
          !.failAt = f, !.lasting = l] :
        u \in {U_ride, U_place}, f \in 0..MaxStoreCalls, l \in BOOLEAN}

OutageTurn ==
    \E session_id \in SuppliedIds, env \in OutageScenarios :
        process_chat_message(session_id, env, MaxAppends, SessionIds, FALSE)

NextOutage ==
    \/ CreateSession
    \/ DeleteSession
    \/ OutageTurn

SpecOutage == Init /\ [][NextOutage]_vars

(* Lines 41-63 of process_chat_message as a function of the store: the
   session resolved, the message translated, the handler run. *)
TextHandled(session_id, env, ids) ==
    LET session == ResolveSession(Machine(env, ids), session_id) IN
    _process_conversation_logic(session.m, EnglishText(env.message, env),
                                session.ctx, env)

(* Both entry points, with every collaborator of the pipeline failing in
   turn: the language detector, the translator in either direction, the
   transcriber, the synthesiser and the store. *)
Outages ==
    {[English(U_ride, "absent", "ok", "ok", "ok") EXCEPT
          !.failAt = f, !.lasting = l] :
        f \in 1..MaxStoreCalls, l \in BOOLEAN}

PipelineScenarios ==
    {English(u, "absent", "ok", "ok", "ok") : u \in Messages}
    \cup {Scenario(U_tamil, "ta", t, d, "Ukkadam", "ok", "ok", "ok") :
            t \in {U_phone, <<>>}, d \in BOOLEAN}
    \cup {Scenario(U_tamil, l, <<>>, TRUE, "Ukkadam", "ok", "ok", "ok") :
            l \in {"raise", "hi"}}
    \cup Outages

Voice(env, stt, tts) == [stt |-> stt, tts |-> tts] @@ env

VoiceScenarios ==
    {Voice(English(u, "absent", "ok", "ok", "ok"), "ok", "ok") :
        u \in Messages}
    \cup {Voice(env, "ok", "ok") : env \in {o \in Outages : o.lasting}}
    \cup {Voice(Scenario(U_tamil, l, t, TRUE, "Ukkadam", "ok", "ok", "ok"),
                "ok", "ok") :
            l \in {"tamil", "hindi"}, t \in {U_phone, U_new}}
    \cup {Voice(English(u, "Ukkadam", "ok", "ok", "ok"), stt, tts) :
            u \in {U_ride, U_place}, stt \in {"ok", "raise"},
            tts \in {"ok", "raise"}}

TextTurn ==
    \E session_id \in SuppliedIds, env \in PipelineScenarios :
        process_chat_message(session_id, env, MaxAppends, SessionIds, FALSE)

VoiceTurn ==
    \E session_id \in SuppliedIds, env \in VoiceScenarios :
        process_voice_input(session_id, env, MaxAppends, SessionIds, FALSE)

NextPipeline ==
    \/ TextTurn
    \/ VoiceTurn
    \/ CreateSession
    \/ SetConversationState
    \/ SetLocationData
    \/ SetPhoneNumber
    \/ SetRideDetails
    \/ DeleteSession

SpecPipeline == Init /\ [][NextPipeline]_vars

(* Turns whose texts are kept in the history: the message as the caller
   sent it and the response as it was returned. *)
WordedScenarios ==
    {English(u, "absent", "ok", "ok", "ok") : u \in {U_ride, U_place}}
    \cup {Scenario(U_tamil, "ta", t, d, "Ukkadam", "ok", "ok", "ok") :
            t \in {U_phone, <<>>}, d \in BOOLEAN}
    \cup Outages

WordedTextTurn ==
    \E session_id \in SuppliedIds, env \in WordedScenarios :
        process_chat_message(session_id, env, MaxAppends, SessionIds, TRUE)

WordedVoiceTurn ==
    \E session_id \in SuppliedIds, env \in WordedScenarios :
        process_voice_input(session_id, Voice(env, "ok", "ok"), MaxAppends,
                            SessionIds, TRUE)

NextTexts ==
    \/ WordedTextTurn
    \/ WordedVoiceTurn
    \/ CreateSession
    \/ SetConversationState
    \/ DeleteSession

SpecTexts == Init /\ [][NextTexts]_vars

(* Voice turns with the store reachable, from every stored state. *)
SpokenScenarios == {env \in VoiceScenarios : env.failAt = 0}

SpokenTurn ==
    \E session_id \in SuppliedIds, env \in SpokenScenarios :
        process_voice_input(session_id, env, MaxAppends, SessionIds, FALSE)

NextVoice ==
    \/ SpokenTurn
    \/ CreateSession
    \/ SetConversationState
    \/ SetLocationData
    \/ SetPhoneNumber
    \/ DeleteSession

SpecVoice == Init /\ [][NextVoice]_vars

(* Callers inside store operations at the same time.  update_session awaits
   the store twice, for its read (line 131) and for its write (lines
   147-151), and add_conversation_entry reads (line 179) before it calls
   update_session: another caller's operation can run in between. *)
Callers == {"caller_1", "caller_2"}

ConcurrentUpdates ==
    {[state |-> ASKING_PICKUP],
     [phone_number |-> LastDigits(ExtractDigits(U_phone))]}

Answer(op, session_id, answer) ==
    /\ request' = [op |-> op, session_id |-> session_id]
    /\ result' = answer
    /\ calls' = <<>>
    /\ steps' = <<>>
    /\ now' = now

ReturnedBy(ret) == [kind |-> "api", ret |-> ret]
StillRunning == [kind |-> "pending"]

Suspended(c, call) == (c :> call) @@ inflight
Resumed(c) == [d \in DOMAIN inflight \ {c} |-> inflight[d]]

Appending(sid) ==
    {c \in DOMAIN inflight :
        /\ inflight[c].session_id = sid
        /\ inflight[c].origin = "add_conversation_entry"}

(* update_session, lines 131-135: the session is read; None ends the call. *)
BeginUpdate ==
    \E c \in Callers \ DOMAIN inflight, sid \in SessionIds,
       updates \in ConcurrentUpdates :
        /\ IF sid \in DOMAIN store
           THEN /\ inflight' =
                       Suspended(c, [op |-> "update_session",
                                     origin |-> "update_session",
                                     session_id |-> sid, rec |-> store[sid],
                                     updates |-> updates])
                /\ Answer("update_session", sid, StillRunning)
           ELSE /\ inflight' = inflight
                /\ Answer("update_session", sid, ReturnedBy(FALSE))
        /\ UNCHANGED <<store, issued, appended>>

(* add_conversation_entry, lines 179-198: the session is read and the entry
   appended to the history that was read. *)
BeginAppend ==
    \E c \in Callers \ DOMAIN inflight, sid \in SessionIds :
        /\ appended[sid] + Cardinality(Appending(sid)) < MaxEntries
        /\ IF sid \in DOMAIN store
           THEN /\ inflight' =
                       Suspended(c,
                           [op |-> "add_conversation_entry",
                            origin |-> "add_conversation_entry",
                            session_id |-> sid, rec |-> store[sid],
                            updates |->
                                [conversation_history |->
                                    add_conversation_entry(
                                        (sid :> store[sid]), sid, <<c>>,
                                        NoText, appended[sid], TRUE
                                    ).store[sid].conversation_history]])
                /\ Answer("add_conversation_entry", sid, StillRunning)
           ELSE /\ inflight' = inflight
                /\ Answer("add_conversation_entry", sid, ReturnedBy(FALSE))
        /\ UNCHANGED <<store, issued, appended>>

(* add_conversation_entry, lines 200-202, into update_session, lines
   131-135: the session is read again. *)
ReadAgain ==
    \E c \in DOMAIN inflight :
        /\ inflight[c].op = "add_conversation_entry"
        /\ IF inflight[c].session_id \in DOMAIN store
           THEN /\ inflight' =
                       [inflight EXCEPT
                           ![c].op = "update_session",
                           ![c].rec = store[inflight[c].session_id]]
                /\ Answer("add_conversation_entry", inflight[c].session_id,
                          StillRunning)
           ELSE /\ inflight' = Resumed(c)
                /\ Answer("add_conversation_entry", inflight[c].session_id,
                          ReturnedBy(FALSE))
        /\ UNCHANGED <<store, issued, appended>>

(* A write of the named fields into whatever the key holds by then. *)
Snapshot_of_the_store(call, st) ==
    IF call.session_id \in DOMAIN st THEN st[call.session_id] ELSE call.rec

(* Lines 137-140: the updates are applied to the context the call read. *)
Snapshot(call, st) == call.rec

(* update_session, lines 137-151: the updated context is written under the
   key, with the full TTL, whatever the key holds by then. *)
WriteBack ==
    \E c \in DOMAIN inflight :
        /\ inflight[c].op = "update_session"
        /\ store' =
              Put(store, inflight[c].session_id,
                  update_session(
                      (inflight[c].session_id :> Snapshot(inflight[c], store)),
                      inflight[c].session_id, inflight[c].updates, TRUE
                  ).store[inflight[c].session_id])
        /\ appended' =
              IF inflight[c].origin = "add_conversation_entry"
              THEN [appended EXCEPT ![inflight[c].session_id] = @ + 1]
              ELSE appended
        /\ inflight' = Resumed(c)
        /\ Answer(inflight[c].origin, inflight[c].session_id,
                  ReturnedBy(TRUE))
        /\ UNCHANGED issued

NextConcurrent ==
    \/ CreateSession
    \/ BeginUpdate
    \/ BeginAppend
    \/ ReadAgain
    \/ WriteBack
    \/ DeleteSession
    \/ Tick

SpecConcurrent == Init /\ [][NextConcurrent]_vars

(* Text turns whose caller gives up while the turn awaits one of its store
   calls (0: the caller waits for the answer). *)
CancelScenarios ==
    {[English(u, "Ukkadam", "ok", "ok", "ok") EXCEPT !.cancelAt = n] :
        u \in {U_ride, U_place, U_phone}, n \in 0..MaxStoreCalls}

AbandonedTurn ==
    \E session_id \in SuppliedIds, env \in CancelScenarios :
        process_chat_message(session_id, env, MaxAppends, SessionIds, FALSE)

NextCancel ==
    \/ AbandonedTurn
    \/ CreateSession
    \/ SetConversationState
    \/ SetLocationData
    \/ SetPhoneNumber
    \/ DeleteSession

SpecCancel == Init /\ [][NextCancel]_vars

----------------------------------------------------------------------------
(* Properties.  A step is a turn when the operation that ran is
   process_chat_message; Before and After are the stored record of the
   session the turn worked on (a session the turn created starts as
   NewSession). *)

Turned == request'.op = "process_chat_message" /\ result'.kind = "result"
Before ==
    IF result'.session_id \in DOMAIN store THEN store[result'.session_id]
    ELSE Named(result'.session_id, NewSession)
After == store'[result'.session_id]

TurnDone == request.op = "process_chat_message" /\ result.kind = "result"
Session == store[result.session_id]

Populated(rec) ==
    /\ rec.pickup_location # NoLocation
    /\ rec.drop_location # NoLocation
    /\ rec.phone_number # NoPhone

Made(log, name) == {i \in 1..Len(log) : log[i].call = name}
RaisedIn(log) == \E i \in 1..Len(log) : log[i].outcome = "raise"
HasPhone(u) == Len(ExtractDigits(u)) >= PhoneDigits

(* C1: a turn moves a session to ride_created, in the store or in the state
   it returns, only if pickup_location, drop_location and phone_number are
   all non-null in the session when it does. *)
C1_RideCreatedOnlyWithBookingInformation ==
    [][(/\ Turned
        /\ Before.state # RIDE_CREATED
        /\ \/ After.state = RIDE_CREATED
           \/ result'.conversation_state = RIDE_CREATED)
       => Populated(After)]_vars

(* A turn in asking_phone or confirming_ride brought ten digits while a
   location was missing, and the session did not become ride_created. *)
C1_Witness ==
    /\ TurnDone
    /\ HasPhone(request.english_text)
    /\ Session.state \in {ASKING_PHONE, CONFIRMING_RIDE}
    /\ Session.phone_number = LastDigits(ExtractDigits(request.english_text))
    /\ ~Populated(Session)
    /\ result.conversation_state # RIDE_CREATED

Edges ==
    {<<GREETING, ASKING_PICKUP>>, <<ASKING_PICKUP, ASKING_DROP>>,
     <<ASKING_DROP, ASKING_PHONE>>, <<ASKING_PHONE, RIDE_CREATED>>,
     <<CONFIRMING_RIDE, RIDE_CREATED>>, <<RIDE_CREATED, GREETING>>,
     <<RIDE_CREATED, ASKING_PICKUP>>, <<COMPLETED, ASKING_PICKUP>>}
    \cup {<<s, s>> : s \in ConversationState}

(* C2: a turn changes the state of its session, stored and returned, only
   along the edges of the transition table, or not at all. *)
C2_TurnsFollowTheTransitionTable ==
    [][Turned =>
        /\ <<Before.state, After.state>> \in Edges
        /\ <<Before.state, result'.conversation_state>> \in Edges]_vars

(* A session with pickup, drop and phone left from an earlier booking went
   from asking_pickup to asking_drop, not further. *)
C2_Witness ==
    /\ TurnDone
    /\ result.response.text = "pickup_set_ask_drop"
    /\ Session.state = ASKING_DROP
    /\ Populated(Session)
    /\ Session.ride_details.present

Min(a, b) == IF a < b THEN a ELSE b

(* C3: the stored history is the last min(n, 50) of the n entries appended
   to the session, in the order they were appended. *)
C3_HistoryKeepsTheLastFifty ==
    \A sid \in DOMAIN store :
        LET h == store[sid].conversation_history
            n == appended[sid]
        IN  /\ Len(h) <= MaxHistory
            /\ Len(h) = Min(n, MaxHistory)
            /\ \A i \in 1..Len(h) : h[i].timestamp = n - Len(h) + i

(* More than 50 entries were appended and the oldest ones are gone. *)
C3_Witness ==
    \E sid \in DOMAIN store :
        /\ appended[sid] > MaxHistory
        /\ Len(store[sid].conversation_history) = MaxHistory
        /\ store[sid].conversation_history[1].timestamp > 1

(* C4: when the Location Resolver or the Ride Provider raises in a turn, the
   turn returns a response and the state, returned and stored, is the state
   before the turn. *)
C4_NoAdvanceOnCollaboratorError ==
    [][(request'.op = "process_chat_message" /\ RaisedIn(calls')) =>
        /\ result'.kind = "result"
        /\ result'.conversation_state = Before.state
        /\ After.state = Before.state]_vars

(* The resolver raised in asking_drop and the turn answered. *)
C4_Witness ==
    /\ TurnDone
    /\ \E i \in Made(calls, "resolve_location") : calls[i].outcome = "raise"
    /\ result.response.text = "drop_error"
    /\ Session.state = ASKING_DROP

(* C5: in asking_phone, an utterance with at least 10 digits whose create
   call fails leaves the state at asking_phone and ride_details as they
   were, and the response carries the error text of the failed call. *)
C5_FailedBookingStaysInAskingPhone ==
    [][(/\ Turned
        /\ Before.state = ASKING_PHONE
        /\ HasPhone(request'.english_text))
       => \A i \in Made(calls', "create_ride") :
            calls'[i].outcome = "raise" =>
                /\ After.state = ASKING_PHONE
                /\ result'.conversation_state = ASKING_PHONE
                /\ After.ride_details = Before.ride_details
                /\ result'.ride_details = Before.ride_details
                /\ result'.response.text = "booking_failed"
                /\ result'.response.arg = calls'[i].detail]_vars

(* The create call failed in asking_phone and its error text was returned. *)
C5_Witness ==
    /\ TurnDone
    /\ Session.state = ASKING_PHONE
    /\ \E i \in Made(calls, "create_ride") :
        /\ calls[i].outcome = "raise"
        /\ calls[i].detail # ""
        /\ result.response = [text |-> "booking_failed",
                              arg |-> calls[i].detail, lang |-> "en"]

(* C6: create_ride is called in a turn only with pickup, drop and phone all
   present; a booking attempted with one of them missing fails with
   'Missing required booking information', calls nothing and leaves the
   state. *)
C6_CreateRideNeedsBookingInformation ==
    [][Turned =>
        /\ Made(calls', "create_ride") # {} =>
            /\ Before.pickup_location # NoLocation
            /\ Before.drop_location # NoLocation
            /\ Populated(After)
        /\ (/\ Before.state \in {ASKING_PHONE, CONFIRMING_RIDE}
            /\ HasPhone(request'.english_text)
            /\ \/ Before.pickup_location = NoLocation
               \/ Before.drop_location = NoLocation)
           => /\ calls' = <<>>
              /\ result'.response.text = "booking_failed"
              /\ result'.response.arg = ERR_MISSING
              /\ After.state = Before.state
              /\ result'.conversation_state = Before.state]_vars

(* create_ride was called, with all three present. *)
C6_Witness ==
    /\ TurnDone
    /\ Made(calls, "create_ride") # {}
    /\ Populated(Session)
    /\ Session.state = CONFIRMING_RIDE

(* C8: a turn calls create_ride at most once, and only when its utterance
   carries at least 10 digits. *)
C8_CreateRideAtMostOncePerTurn ==
    /\ Cardinality(Made(calls, "create_ride")) <= 1
    /\ Cardinality(Made(calls, "POST create-admin-ride")) <= 1
    /\ Made(calls, "create_ride") # {} =>
        /\ request.op = "process_chat_message"
        /\ HasPhone(request.english_text)

(* A create call failed and the turn ended without a second one. *)
C8_Witness ==
    /\ TurnDone
    /\ Cardinality(Made(calls, "create_ride")) = 1
    /\ RaisedIn(calls)
    /\ result.response.text = "booking_failed"

AllDigits(p) == \A i \in 1..Len(p) : p[i] \in Digits

(* C9: in asking_phone (and confirming_ride, which shares the handler) an
   utterance with fewer than 10 digits leaves state and phone_number and
   calls nothing; otherwise phone_number becomes the last 10 digits of the
   utterance in their order, a string of exactly 10 digits. *)
C9_PhoneIsTheLastTenDigits ==
    [][(Turned /\ Before.state \in {ASKING_PHONE, CONFIRMING_RIDE}) =>
        LET digits == ExtractDigits(request'.english_text) IN
        IF Len(digits) < PhoneDigits
        THEN /\ After.state = Before.state
             /\ result'.conversation_state = Before.state
             /\ After.phone_number = Before.phone_number
             /\ calls' = <<>>
        ELSE /\ Len(After.phone_number) = PhoneDigits
             /\ AllDigits(After.phone_number)
             /\ \A i \in 1..PhoneDigits :
                    After.phone_number[i]
                        = digits[Len(digits) - PhoneDigits + i]
             /\ request'.english_text = U_phone =>
                    After.phone_number
                        = <<"9", "8", "7", "6", "5", "4", "3", "2", "1", "0">>
       ]_vars

(* An utterance with more than 10 digits and other characters among them
   was heard and a phone number differing from its first 10 digits stored. *)
C9_Witness ==
    /\ TurnDone
    /\ Len(ExtractDigits(request.english_text)) > PhoneDigits
    /\ Len(request.english_text) > Len(ExtractDigits(request.english_text))
    /\ Len(Session.phone_number) = PhoneDigits
    /\ Session.phone_number
         # SubSeq(ExtractDigits(request.english_text), 1, PhoneDigits)

Resolution(log) ==
    {log[i].outcome : i \in Made(log, "resolve_location")}

(* C10: in asking_pickup and asking_drop an absent resolution leaves the
   state and both stored locations and returns the retry prompt; a location
   is stored, and the state advances, only with the location the resolver
   returned. *)
C10_AbsentLocationKeepsTheState ==
    [][(Turned /\ Before.state \in {ASKING_PICKUP, ASKING_DROP}) =>
        /\ Resolution(calls') = {"absent"} =>
            /\ After.state = Before.state
            /\ result'.conversation_state = Before.state
            /\ After.pickup_location = Before.pickup_location
            /\ After.drop_location = Before.drop_location
            /\ result'.response.text =
                 IF Before.state = ASKING_PICKUP THEN "pickup_retry"
                 ELSE "drop_retry"
        /\ (\/ After.state # Before.state
            \/ result'.conversation_state # Before.state
            \/ After.pickup_location # Before.pickup_location
            \/ After.drop_location # Before.drop_location)
           => /\ Resolution(calls') \subseteq Locations
              /\ Resolution(calls') =
                   IF Before.state = ASKING_PICKUP
                   THEN {After.pickup_location} ELSE {After.drop_location}
              /\ After.state =
                   IF Before.state = ASKING_PICKUP THEN ASKING_DROP
                   ELSE ASKING_PHONE]_vars

(* The resolver found nothing in asking_pickup and the retry prompt came. *)
C10_Witness ==
    /\ TurnDone
    /\ Resolution(calls) = {"absent"}
    /\ result.response.text = "pickup_retry"
    /\ Session.state = ASKING_PICKUP
    /\ Session.drop_location # NoLocation

(* What a turn leaves of the booking fields *)
SameBooking(a, b) ==
    /\ a.pickup_location = b.pickup_location
    /\ a.drop_location = b.drop_location
    /\ a.phone_number = b.phone_number
    /\ a.ride_details = b.ride_details

Says(u, keywords) == \E kw \in keywords : Contains(Lower(u), kw)

StatusWords == {KW_status, KW_driver}
CancelWords == {KW_cancel}
NewWords == {KW_new, KW_another}

(* C11: in greeting and in completed a turn with any utterance moves the
   session to asking_pickup and returns the welcome prompt, calls neither
   the resolver nor the provider and leaves pickup, drop, phone and
   ride_details. *)
C11_GreetingAndCompletedAskForPickup ==
    [][(Turned /\ Before.state \in {GREETING, COMPLETED}) =>
        /\ After.state = ASKING_PICKUP
        /\ result'.conversation_state = ASKING_PICKUP
        /\ result'.response.text = "welcome_ask_pickup"
        /\ result'.next_action = "provide_pickup_location"
        /\ calls' = <<>>
        /\ SameBooking(After, Before)]_vars

(* The welcome prompt was given to a session that already carries a
   booking, so it was not a fresh one. *)
C11_Witness ==
    /\ TurnDone
    /\ result.response.text = "welcome_ask_pickup"
    /\ Session.state = ASKING_PICKUP
    /\ Populated(Session)
    /\ Session.ride_details.present

(* C12, as claimed: in ride_created with a stored ride id a cancel
   utterance makes the turn call cancel_ride exactly once with that id, and
   the state becomes greeting exactly when the call succeeded. *)
C12_CancelCallsTheProvider ==
    [][(/\ Turned
        /\ Before.state = RIDE_CREATED
        /\ Before.ride_details.present
        /\ Before.ride_details.ride_id \in RideIds
        /\ Says(request'.english_text, CancelWords)
        /\ ~Says(request'.english_text, StatusWords))
       => /\ Cardinality(Made(calls', "cancel_ride")) = 1
          /\ \A i \in Made(calls', "cancel_ride") :
                After.state = GREETING <=> calls'[i].outcome = "return"]_vars

(* C13: in ride_created a new/another utterance moves the state to
   asking_pickup, calls nothing and leaves pickup, drop, phone and
   ride_details; afterwards a turn changes pickup only in asking_pickup,
   drop only in asking_drop, and phone and ride_details only in
   asking_phone or confirming_ride. *)
C13_NewBookingKeepsTheOldFields ==
    [][Turned =>
        /\ (/\ Before.state = RIDE_CREATED
            /\ Says(request'.english_text, NewWords)
            /\ ~Says(request'.english_text, StatusWords \cup CancelWords))
           => /\ After.state = ASKING_PICKUP
              /\ result'.conversation_state = ASKING_PICKUP
              /\ result'.response.text = "new_ride_ask_pickup"
              /\ calls' = <<>>
              /\ SameBooking(After, Before)
        /\ After.pickup_location # Before.pickup_location
           => Before.state = ASKING_PICKUP
        /\ After.drop_location # Before.drop_location
           => Before.state = ASKING_DROP
        /\ (\/ After.phone_number # Before.phone_number
            \/ After.ride_details # Before.ride_details)
           => Before.state \in {ASKING_PHONE, CONFIRMING_RIDE}]_vars

(* A new booking was started on a session that keeps the whole previous
   booking. *)
C13_Witness ==
    /\ TurnDone
    /\ result.response.text = "new_ride_ask_pickup"
    /\ Session.state = ASKING_PICKUP
    /\ Populated(Session)
    /\ Session.ride_details.present
    /\ calls = <<>>

(* C14: in ride_created a status or driver utterance leaves the state and
   the booking fields, and the turn answers whatever the status endpoint
   does; an utterance with no keyword leaves the state and calls nothing. *)
C14_StatusNeverChangesTheSession ==
    [][(/\ request'.op = "process_chat_message"
        /\ request'.session_id \in DOMAIN store
        /\ store[request'.session_id].state = RIDE_CREATED)
       => /\ result'.kind = "result"
          /\ Says(request'.english_text, StatusWords)
             => /\ After.state = RIDE_CREATED
                /\ result'.conversation_state = RIDE_CREATED
                /\ SameBooking(After, Before)
                /\ result'.response.text
                     \in {"driver_info", "post_ride_menu", "post_ride_error"}
          /\ ~Says(request'.english_text,
                   StatusWords \cup CancelWords \cup NewWords)
             => /\ After.state = RIDE_CREATED
                /\ result'.conversation_state = RIDE_CREATED
                /\ result'.response.text = "post_ride_menu"
                /\ calls' = <<>>]_vars

(* A status question was asked about a stored ride, and answered. *)
C14_Witness ==
    /\ TurnDone
    /\ Says(request.english_text, StatusWords)
    /\ Session.state = RIDE_CREATED
    /\ Session.ride_details.present
    /\ Session.ride_details.ride_id \in RideIds
    /\ result.response.text = "post_ride_error"

ProviderFailed(log) ==
    \E i \in Made(log, "POST create-admin-ride") : log[i].outcome # "ok"

Resolved_(log) ==
    Resolution(log) # {} /\ Resolution(log) \subseteq Locations

(* C15, as claimed: when the collaborators succeed every state has a turn
   that leads on towards ride_created: any utterance in greeting and
   completed, a resolvable place in asking_pickup and asking_drop, and ten
   digits in asking_phone and confirming_ride, which reach ride_created. *)
C15_EveryStateLeadsToRideCreated ==
    [][(Turned /\ ~ProviderFailed(calls')) =>
        /\ Before.state \in {GREETING, COMPLETED}
           => After.state = ASKING_PICKUP
        /\ (Before.state = ASKING_PICKUP /\ Resolved_(calls'))
           => After.state = ASKING_DROP
        /\ (Before.state = ASKING_DROP /\ Resolved_(calls'))
           => After.state = ASKING_PHONE
        /\ (/\ Before.state \in {ASKING_PHONE, CONFIRMING_RIDE}
            /\ Before.pickup_location # NoLocation
            /\ Before.drop_location # NoLocation
            /\ HasPhone(request'.english_text))
           => After.state = RIDE_CREATED]_vars

(* C16, as claimed: a turn in confirming_ride ends in ride_created or in
   asking_phone. *)
C16_ConfirmingRideEndsInAskingPhone ==
    [][(Turned /\ Before.state = CONFIRMING_RIDE) =>
        /\ After.state \in {RIDE_CREATED, ASKING_PHONE}
        /\ result'.conversation_state \in {RIDE_CREATED, ASKING_PHONE}]_vars

(* C16, amended: a turn in confirming_ride does what the asking_phone
   handler does (fewer than 10 digits: retry prompt, nothing written,
   nothing called; otherwise the last 10 digits are stored and the booking
   is attempted), and the state becomes ride_created when the booking
   succeeded and otherwise stays confirming_ride. *)
C16_ConfirmingRideStaysOnFailure ==
    [][(Turned /\ Before.state = CONFIRMING_RIDE) =>
        IF ~HasPhone(request'.english_text)
        THEN /\ After.state = CONFIRMING_RIDE
             /\ result'.conversation_state = CONFIRMING_RIDE
             /\ result'.response.text = "phone_invalid"
             /\ calls' = <<>>
             /\ SameBooking(After, Before)
        ELSE /\ After.phone_number
                  = LastDigits(ExtractDigits(request'.english_text))
             /\ After.pickup_location = Before.pickup_location
             /\ After.drop_location = Before.drop_location
             /\ Made(calls', "create_ride") # {}
                  <=> (/\ Before.pickup_location # NoLocation
                       /\ Before.drop_location # NoLocation)
             /\ result'.response.text \in {"ride_requested", "booking_failed"}
             /\ After.state = IF result'.response.text = "ride_requested"
                              THEN RIDE_CREATED ELSE CONFIRMING_RIDE
             /\ result'.conversation_state = After.state]_vars

(* A booking attempted from confirming_ride failed and the session is still
   in confirming_ride. *)
C16_Witness ==
    /\ TurnDone
    /\ Session.state = CONFIRMING_RIDE
    /\ result.conversation_state = CONFIRMING_RIDE
    /\ result.response.text = "booking_failed"
    /\ result.response.arg = ERR_TYPE
    /\ Session.phone_number = LastDigits(ExtractDigits(request.english_text))

\* C17: a turn given the id of a stored session works on that session:
\* it returns the same id, issues no id and adds no record.  A turn given no
\* id, or an id with no record (never created, deleted or expired), creates
\* exactly one session, under an id that was never issued and is not the
\* supplied one, answers it as a greeting, and returns the new id.
OthersKept(sid) ==
    \A k \in DOMAIN store \ {sid} : k \in DOMAIN store' /\ store'[k] = store[k]

C17_TurnsResolveTheirSession ==
    [][Turned =>
        IF request'.session_id \in DOMAIN store
        THEN /\ result'.session_id = request'.session_id
             /\ issued' = issued
             /\ DOMAIN store' = DOMAIN store
             /\ OthersKept(request'.session_id)
        ELSE /\ result'.session_id # request'.session_id
             /\ result'.session_id \notin issued
             /\ result'.session_id \notin DOMAIN store
             /\ issued' = issued \cup {result'.session_id}
             /\ DOMAIN store' = DOMAIN store \cup {result'.session_id}
             /\ OthersKept(result'.session_id)
             /\ After.created_at = now
             /\ After.state = ASKING_PICKUP
             /\ result'.conversation_state = ASKING_PICKUP
             /\ result'.response.text = "welcome_ask_pickup"
             /\ Len(After.conversation_history) = 1]_vars

C17_Witness ==
    /\ TurnDone
    /\ request.session_id \in issued
    /\ result.session_id # request.session_id
    /\ now >= session_ttl
    /\ Cardinality(DOMAIN store) = 1

\* C18: create_session writes one record, under an identifier that was never
\* issued and holds no record: state greeting, empty history, created_at equal
\* to updated_at, every booking field null, and the whole TTL ahead of it;
\* the other records stay as they were.  When the store cannot be reached the
\* call raises the session-store error and the store is left as it was.
C18_CreateSessionWritesAFreshRecord ==
    [][request'.op = "create_session" =>
        IF result'.kind = "api"
        THEN /\ request'.session_id \notin issued
             /\ request'.session_id \notin DOMAIN store
             /\ DOMAIN store' = DOMAIN store \cup {request'.session_id}
             /\ OthersKept(request'.session_id)
             /\ store'[request'.session_id] =
                    [session_id |-> request'.session_id,
                     state |-> GREETING, conversation_history |-> <<>>,
                     pickup_location |-> NoLocation,
                     drop_location |-> NoLocation,
                     phone_number |-> NoPhone,
                     ride_details |-> NoRideDetails,
                     created_at |-> now, updated_at |-> now,
                     expires_at |-> now + session_ttl]
        ELSE /\ result'.kind = "error"
             /\ result'.store_failed
             /\ store' = store
             /\ issued' = issued]_vars

C18_Witness ==
    /\ request.op = "create_session"
    /\ result.kind = "api"
    /\ now > 0
    /\ Cardinality(DOMAIN store) = 2
    /\ store[request.session_id].created_at = now
    /\ \E k \in DOMAIN store : store[k].state # GREETING

\* C19: get_session on an identifier with no record returns None ("absent")
\* without raising and without touching the store, and update_session,
\* add_conversation_entry and extend_session return False and write nothing;
\* the answer is the same whether the identifier was never created, was
\* deleted, or was created and has expired.
Lookups ==
    {"get_session", "update_session", "add_conversation_entry",
     "extend_session"}

NoAnswer(op) == IF op = "get_session" THEN "absent" ELSE FALSE

C19_AbsentSessionsAnswerAlike ==
    [][(request'.op \in Lookups /\ request'.session_id \notin DOMAIN store) =>
        /\ result' = [kind |-> "api", ret |-> NoAnswer(request'.op)]
        /\ store' = store
        /\ issued' = issued]_vars

C19_Witness ==
    /\ request.op = "get_session"
    /\ result = [kind |-> "api", ret |-> "absent"]
    /\ request.session_id \in issued
    /\ request.session_id \notin DOMAIN store
    /\ now >= session_ttl
    /\ DOMAIN store # {}

\* C20: update_session and the four setters return False and leave the store
\* as it was when the identifier has no record (never created, deleted or
\* expired); none of them ever adds a record.
Writers ==
    {"update_session", "set_conversation_state", "set_location_data",
     "set_phone_number", "set_ride_details"}

C20_WritersNeverCreate ==
    [][request'.op \in Writers =>
        /\ DOMAIN store' = DOMAIN store
        /\ request'.session_id \notin DOMAIN store =>
              /\ result' = [kind |-> "api", ret |-> FALSE]
              /\ store' = store]_vars

C20_Witness ==
    /\ request.op = "set_ride_details"
    /\ result = [kind |-> "api", ret |-> FALSE]
    /\ request.session_id \in issued
    /\ request.session_id \notin DOMAIN store
    /\ now >= session_ttl

\* C21 as claimed: a successful update_session merges the named fields,
\* refreshes updated_at and leaves the time at which the record expires where
\* it was.
Merged(rec, after) ==
    \E updates \in SessionUpdates :
        \A f \in DOMAIN rec \ {"updated_at", "expires_at"} :
            after[f] = IF f \in DOMAIN updates THEN updates[f] ELSE rec[f]

Updated ==
    /\ request'.op = "update_session"
    /\ result' = [kind |-> "api", ret |-> TRUE]

C21_UpdateKeepsTheRemainingTtl ==
    [][Updated =>
        /\ Merged(store[request'.session_id], store'[request'.session_id])
        /\ store'[request'.session_id].updated_at = now
        /\ store'[request'.session_id].expires_at =
               store[request'.session_id].expires_at]_vars

\* C21 as amended: a successful update_session merges the named fields,
\* refreshes updated_at and sets the remaining TTL to the full window, as
\* extend_session does.
C21_UpdateResetsTheTtl ==
    [][Updated =>
        /\ Merged(store[request'.session_id], store'[request'.session_id])
        /\ store'[request'.session_id].updated_at = now
        /\ store'[request'.session_id].expires_at = now + session_ttl]_vars

C21_Witness ==
    /\ request.op = "update_session"
    /\ result = [kind |-> "api", ret |-> TRUE]
    /\ store[request.session_id].created_at < now
    /\ store[request.session_id].updated_at = now
    /\ store[request.session_id].expires_at = now + session_ttl
    /\ store[request.session_id].state = CONFIRMING_RIDE

\* C22: extend_session on a stored session sets the time left to the full
\* window, so the record never expires earlier than it would have, and every
\* field of the record stays as it was; on an identifier with no record it
\* returns False and the store stays as it was.
Content(rec) == [f \in DOMAIN rec \ {"expires_at"} |-> rec[f]]

C22_ExtendNeverShortens ==
    [][request'.op = "extend_session" =>
        IF request'.session_id \in DOMAIN store
        THEN /\ result' = [kind |-> "api", ret |-> TRUE]
             /\ DOMAIN store' = DOMAIN store
             /\ OthersKept(request'.session_id)
             /\ store'[request'.session_id].expires_at = now + session_ttl
             /\ store'[request'.session_id].expires_at >=
                    store[request'.session_id].expires_at
             /\ Content(store'[request'.session_id]) =
                    Content(store[request'.session_id])
        ELSE /\ result' = [kind |-> "api", ret |-> FALSE]
             /\ store' = store]_vars

C22_Witness ==
    /\ request.op = "extend_session"
    /\ result = [kind |-> "api", ret |-> TRUE]
    /\ store[request.session_id].updated_at < now
    /\ store[request.session_id].expires_at = now + session_ttl
    /\ now >= session_ttl

\* C23: delete_session on a stored session removes that record, keeps the
\* others and returns True; on an identifier with no record (deleted before,
\* or never created) it raises nothing, returns False and leaves the store as
\* it was.
C23_DeleteIsIdempotent ==
    [][request'.op = "delete_session" =>
        /\ result' = [kind |-> "api",
                      ret |-> request'.session_id \in DOMAIN store]
        /\ DOMAIN store' = DOMAIN store \ {request'.session_id}
        /\ OthersKept(request'.session_id)
        /\ request'.session_id \notin DOMAIN store => store' = store]_vars

C23_Witness ==
    /\ request.op = "delete_session"
    /\ result = [kind |-> "api", ret |-> FALSE]
    /\ request.session_id \in issued
    /\ now = 0
    /\ DOMAIN store # {}

\* C24: the session_id field of every stored record equals the key the record
\* is stored under, after any sequence of turns and of update_session calls,
\* whatever fields the updates name.
C24_SessionIdIsTheKey ==
    \A k \in DOMAIN store : store[k].session_id = k

\* C25: a turn during which the session store cannot be reached fails, and
\* with the error kind of the session store (SessionException), which no
\* other failure of a turn has; a turn that returns a result has its session
\* persisted as the result says.
C25_StoreOutageFailsTheTurn ==
    [][request'.op = "process_chat_message" =>
        /\ result'.store_failed =>
              /\ result'.kind = "error"
              /\ result'.error = "SessionException"
        /\ result'.kind = "result" =>
              /\ result'.session_id \in DOMAIN store'
              /\ After.state = result'.conversation_state]_vars

EntryPoints == {"process_chat_message", "process_voice_input"}

\* C26: process_chat_message and process_voice_input either return a result
\* with the response text, the session id, the detected language and a
\* conversation state of the closed set, or raise an exception of the
\* AIRideBookingException family; nothing else leaves them.
C26_TurnsReturnOrRaiseInTheFamily ==
    [][request'.op \in EntryPoints =>
        \/ /\ result'.kind = "result"
           /\ result'.response.text # ""
           /\ result'.session_id \in issued'
           /\ result'.detected_language \in {"en", "ta", "ml"}
           /\ result'.conversation_state \in ConversationState
        \/ /\ result'.kind = "error"
           /\ result'.error \in ExceptionFamily]_vars

C26_Witness ==
    /\ request.op = "process_voice_input"
    /\ result.kind = "error"
    /\ ~result.store_failed
    /\ steps # <<>>
    /\ steps[Len(steps)] = [step |-> "text_to_speech", outcome |-> "raise"]

HistoryBefore ==
    IF result'.session_id \in DOMAIN store
    THEN store[result'.session_id].conversation_history ELSE <<>>

Recorded(history) ==
    /\ Len(history) = Len(KeepLast(Append(HistoryBefore, NoText)))
    /\ history[Len(history)].user_message = request'.message
    /\ history[Len(history)].bot_response = result'.response

\* C27: every turn that returns a result has appended one entry to the
\* history of its session, with the text the user sent as user_message and
\* the localized response that was returned as bot_response; the stored
\* record reads back that same response.
C27_ResultsAreRecorded ==
    [][request'.op \in EntryPoints /\ result'.kind = "result" =>
        /\ result'.session_id \in DOMAIN store'
        /\ Recorded(After.conversation_history)]_vars

\* The same, for the turns during which the store answered every call.
RecordedWhenTheStoreAnswers ==
    [][(/\ request'.op \in EntryPoints
        /\ result'.kind = "result"
        /\ ~result'.store_failed) =>
            /\ result'.session_id \in DOMAIN store'
            /\ Recorded(After.conversation_history)]_vars

LanguageSteps ==
    {"detect_language", "translate_to_english", "translate_from_english"}

Raising(log, names) ==
    {i \in 1..Len(log) : log[i].step \in names /\ log[i].outcome = "raise"}

StepsOf(log, name) == {i \in 1..Len(log) : log[i].step = name}

\* C28: a turn during which language detection or a translation fails, and
\* nothing else does, returns a result: a failed detection counts as English,
\* a failed inbound translation hands the handler the text as sent, a failed
\* outbound translation returns the handler's English response; the handler's
\* state is stored and the history entry is appended.
C28_LanguageFailuresAreAbsorbed ==
    [][(/\ request'.op \in EntryPoints
        /\ Raising(steps', LanguageSteps) # {}
        /\ Raising(steps', {"speech_to_text", "text_to_speech"}) = {}
        /\ ~result'.store_failed) =>
            /\ result'.kind = "result"
            /\ Raising(steps', {"detect_language"}) # {} =>
                    result'.detected_language = "en"
            /\ Raising(steps', {"translate_to_english"}) # {} =>
                    request'.english_text = request'.message
            /\ Raising(steps', {"translate_from_english"}) # {} =>
                    result'.response.lang = "en"
            /\ After.state = result'.conversation_state
            /\ Len(After.conversation_history) =
                   Len(KeepLast(Append(HistoryBefore, NoText)))
            /\ \A i \in StepsOf(steps', "add_conversation_entry") :
                   steps'[i].outcome = "true"]_vars

C28_Witness ==
    /\ request.op = "process_chat_message"
    /\ result.kind = "result"
    /\ Raising(steps, {"translate_to_english"}) # {}
    /\ Raising(steps, {"translate_from_english"}) # {}
    /\ result.conversation_state = ASKING_DROP

SessionSteps == {"create_session", "get_session"}
ClosingSteps == {"add_conversation_entry", "extend_session"}

\* The steps between the two translations: the handler's calls and writes.
HandlerSteps(log) ==
    {i \in 1..Len(log) :
        log[i].step \notin SessionSteps \cup LanguageSteps \cup ClosingSteps}

InOrder(log) ==
    \E d \in 1..Len(log) :
        /\ Len(log) >= d + 4
        /\ \A i \in 1..(d - 1) : log[i].step \in SessionSteps
        /\ d > 1
        /\ log[d].step = "detect_language"
        /\ log[d + 1].step = "translate_to_english"
        /\ HandlerSteps(log) = (d + 2)..(Len(log) - 3)
        /\ log[Len(log) - 2].step = "translate_from_english"
        /\ log[Len(log) - 1].step = "add_conversation_entry"
        /\ log[Len(log)].step = "extend_session"

\* C29: a text turn that returns a result has taken its steps in this order:
\* the session is loaded (created when absent), the language detected, the
\* message translated, the handler run with its calls and writes, the
\* response translated, the history entry appended, the TTL extended; no
\* handler step precedes the inbound translation and the TTL extension is the
\* last store operation. A text turn that fails stops in the session load.
C29_StepsOfATextTurnAreOrdered ==
    [][request'.op = "process_chat_message" =>
        IF result'.kind = "result" THEN InOrder(steps')
        ELSE \A i \in 1..Len(steps') : steps'[i].step \in SessionSteps]_vars

C29_Witness ==
    /\ request.op = "process_chat_message"
    /\ result.kind = "result"
    /\ steps[1].step = "get_session"
    /\ StepsOf(steps, "resolve_location") # {}
    /\ Cardinality(HandlerSteps(steps)) >= 2
    /\ steps[Len(steps)] = [step |-> "extend_session", outcome |-> "true"]

Booking(rec) ==
    [state |-> rec.state, pickup_location |-> rec.pickup_location,
     drop_location |-> rec.drop_location, phone_number |-> rec.phone_number,
     ride_details |-> rec.ride_details]

\* What a text turn with the transcript as message, detected as the language
\* the transcriber reported, writes to the booking fields from this state.
AsText(session_id, env) ==
    TextHandled(session_id,
                [env EXCEPT !.lang = speech_to_text(env).detected_language],
                SessionIds)

SameWrites(text) ==
    /\ DOMAIN store' = DOMAIN text.m.store
    /\ \A k \in DOMAIN store' :
           Booking(store'[k]) = Booking(text.m.store[k])
    /\ result'.kind = "result" =>
           result'.conversation_state = text.ctx.state

\* C30: a voice turn whose transcription yields text T in language L, from
\* any stored state, leaves state, pickup_location, drop_location,
\* phone_number and ride_details of every session as a text turn with
\* message T detected as L leaves them, and reports the same state.
C30_VoiceTurnsWriteAsTextTurns ==
    [][request'.op = "process_voice_input" =>
        \A env \in SpokenScenarios :
            (/\ env.message = request'.message
             /\ env.stt = "ok"
             /\ process_voice_input(request'.session_id, env, MaxAppends,
                                    SessionIds, FALSE)) =>
                SameWrites(AsText(request'.session_id, env))]_vars

C30_Witness ==
    /\ request.op = "process_voice_input"
    /\ result.kind = "result"
    /\ result.detected_language = "ta"
    /\ request.english_text = U_new
    /\ StepsOf(steps, "set_conversation_state") # {}

\* C31: a turn or a store operation on one session leaves the record and
\* the expiry of every other stored session as they were.
C31_OtherSessionsAreUntouched ==
    [][request'.op # "none" => OthersKept(request'.session_id)]_vars

Entries(history) == {history[i] : i \in 1..Len(history)}

\* C32: an add_conversation_entry call that returns True, whatever other
\* call on the session runs at the same time, leaves every entry that was
\* stored before it in the history, next to its own.
C32_ConcurrentAppendsAreKept ==
    [][(/\ request'.op = "add_conversation_entry"
        /\ result' = ReturnedBy(TRUE)
        /\ request'.session_id \in DOMAIN store) =>
            Entries(store[request'.session_id].conversation_history)
                \subseteq
            Entries(store'[request'.session_id].conversation_history)]_vars

RecordFields == DOMAIN Named(NoId, NewSession)

WrittenAtOnce(call) == Rewritten(Merge(call.rec, call.updates))

\* C33: whatever calls on a session run at the same time, every record
\* that appears under its key is a whole record: a new session, or the
\* context one call read with that call's updates applied, with every field
\* present and state one of the seven conversation states.
C33_StoredRecordsAreWhole ==
    [][\A k \in DOMAIN store' :
        (k \notin DOMAIN store \/ store'[k] # store[k]) =>
            /\ DOMAIN store'[k] = RecordFields
            /\ store'[k].state \in ConversationState
            /\ \/ k \notin issued /\ store'[k] = Named(k, NewSession)
               \/ \E c \in DOMAIN inflight :
                     /\ inflight[c].session_id = k
                     /\ store'[k] = WrittenAtOnce(inflight[c])]_vars

C33_Witness ==
    /\ request.op = "update_session"
    /\ result = ReturnedBy(TRUE)
    /\ DOMAIN inflight # {}
    /\ \E c \in DOMAIN inflight :
          /\ inflight[c].session_id = request.session_id
          /\ inflight[c].rec.state # store[request.session_id].state

\* C37: an identifier whose record was deleted or has expired has no
\* record from then on, whatever update_session or add_conversation_entry
\* call on it was under way.
C37_DeletedSessionsStayDeleted ==
    [][\A k \in issued : k \notin DOMAIN store => k \notin DOMAIN store']_vars

StoreSteps ==
    {"create_session", "get_session", "set_conversation_state",
     "set_location_data", "set_phone_number", "set_ride_details",
     "add_conversation_entry", "extend_session"}

StoreCalls(log) == {i \in 1..Len(log) : log[i].step \in StoreSteps}

Written(log) ==
    {i \in StoreCalls(log) : log[i].outcome \in {"true", "ok"}}

\* C34: a turn given up by its caller while it awaits a store call makes
\* neither that call nor any later one: a turn that got that far raises
\* CancelledError, its steps end before the call, and the store holds what
\* the steps before it wrote, which is nothing when none of them wrote.
C34_NoWriteAfterCancellation ==
    [][(/\ request'.op = "process_chat_message"
        /\ "cancelled_at" \in DOMAIN request') =>
            /\ Cardinality(StoreCalls(steps')) < request'.cancelled_at
            /\ result'.kind = "error" =>
                  /\ result'.error = "CancelledError"
                  /\ Cardinality(StoreCalls(steps')) =
                         request'.cancelled_at - 1
                  /\ Written(steps') = {} => store' = store
                  /\ \A i \in 1..Len(steps') :
                         steps'[i].step \notin
                             {"add_conversation_entry", "extend_session"}
                         \/ i \in Written(steps')]_vars

C34_Witness ==
    /\ request.op = "process_chat_message"
    /\ "cancelled_at" \in DOMAIN request
    /\ result = Cancelled
    /\ Written(steps) # {}
    /\ steps[Len(steps)].step = "set_location_data"
    /\ store[request.session_id].state = ASKING_PICKUP
    /\ store[request.session_id].pickup_location # NoLocation

ResultIsStored ==
    /\ result'.session_id \in DOMAIN store'
    /\ After.state = result'.conversation_state
    /\ After.ride_details = result'.ride_details

\* C35: when a turn returns a result, the session stored under the returned
\* identifier has the conversation_state and the ride_details of the result,
\* also when a store write of the handler failed during the turn.
C35_ResultsMatchTheStore ==
    [][Turned => ResultIsStored]_vars

\* The same, for the turns during which the store answered every call.
MatchWhenTheStoreAnswers ==
    [][(Turned /\ ~result'.store_failed) => ResultIsStored]_vars

\* C36: a voice turn that raises leaves state, pickup_location,
\* drop_location, phone_number and ride_details of every stored session as
\* they were, and has sent no ride request to the provider.
C36_FailedVoiceTurnsWriteNothing ==
    [][(request'.op = "process_voice_input" /\ result'.kind = "error") =>
        /\ \A k \in DOMAIN store :
              /\ k \in DOMAIN store'
              /\ Booking(store'[k]) = Booking(store[k])
        /\ Made(calls', "POST create-admin-ride") = {}]_vars

(* Utterances after the ride was created that name more than one keyword
   group, in either order and in either case. *)
RECURSIVE Spoken(_)
Spoken(words) ==
    IF Len(words) = 1 THEN words[1]
    ELSE words[1] \o <<" ">> \o Spoken(Tail(words))

PostRideUtterances ==
    {Spoken(<<U_status, U_cancel, U_new>>),
     Spoken(<<U_another, U_cancel, U_driver>>),
     Spoken(<<U_cancel, U_another>>),
     Spoken(<<U_new, U_cancel>>),
     U_status, U_cancel, U_new, U_place}

PostRideScenarios ==
    {English(u, "absent", "ok", c, s) :
        u \in PostRideUtterances, c \in CancelOutcomes,
        s \in StatusOutcomes}

PostRideTurn ==
    \E session_id \in SuppliedIds, env \in PostRideScenarios :
        process_chat_message(session_id, env, MaxAppends, SessionIds, FALSE)

NextPostRide ==
    \/ PostRideTurn
    \/ CreateSession
    \/ SetConversationState
    \/ SetRideDetails

SpecPostRide == Init /\ [][NextPostRide]_vars

BookingFailed ==
    /\ Turned
    /\ Before.state = ASKING_PHONE
    /\ result'.response.text = "booking_failed"

SuppliedDigits == LastDigits(ExtractDigits(request'.english_text))

\* C38 as claimed: in asking_phone, when the booking fails, the stored
\* record differs from the one before the turn in phone_number alone, which
\* holds the supplied 10 digits.
C38_OnlyThePhoneNumberChanges ==
    [][BookingFailed =>
        After = [Before EXCEPT !.phone_number = SuppliedDigits]]_vars

TurnFields == {"conversation_history", "updated_at", "expires_at"}

\* C38, amended: in asking_phone set_phone_number is called with the
\* supplied number before the ride is requested, so when the booking fails
\* phone_number (the supplied 10 digits) is the only booking field the turn
\* has changed: state, pickup_location, drop_location and ride_details are
\* unchanged, and beyond them only the history entry, updated_at and the TTL
\* of the turn differ.
C38_OnlyThePhoneNumberOfTheBooking ==
    [][BookingFailed =>
        /\ \A f \in DOMAIN Before \ (TurnFields \cup {"phone_number"}) :
               After[f] = Before[f]
        /\ After.phone_number \in {Before.phone_number, SuppliedDigits}
        /\ \A i \in StepsOf(steps', "set_phone_number") :
               steps'[i].outcome = "true" =>
                   After.phone_number = SuppliedDigits
        /\ \A i \in StepsOf(steps', "create_ride") :
               \E j \in StepsOf(steps', "set_phone_number") : j < i]_vars

C38_Witness ==
    /\ TurnDone
    /\ result.response.text = "booking_failed"
    /\ StepsOf(steps, "create_ride") # {}
    /\ Session.state = ASKING_PHONE
    /\ Session.phone_number = LastDigits(ExtractDigits(request.english_text))
    /\ Session.pickup_location # NoLocation

Asks(kw) == Contains(Lower(request'.english_text), kw)

PostRide == Turned /\ Before.state = RIDE_CREATED

Cancels ==
    \/ Made(calls', "cancel_ride") # {}
    \/ After.state = GREETING
    \/ result'.response.text = "ride_cancelled"

StartsANewBooking ==
    \/ After.state = ASKING_PICKUP
    \/ result'.response.text = "new_ride_ask_pickup"

\* C39: in ride_created the keyword groups are tested in the order
\* status/driver, cancel, new/another by case-insensitive substring match and
\* only the first matching group acts: an utterance containing 'status' or
\* 'driver' neither cancels the ride nor starts a new booking, and one
\* containing 'cancel' does not start a new booking, whatever else they
\* contain.
C39_FirstKeywordGroupActs ==
    [][PostRide =>
        /\ (Asks(KW_status) \/ Asks(KW_driver)) =>
               ~Cancels /\ ~StartsANewBooking
        /\ Asks(KW_cancel) => ~StartsANewBooking
        /\ (~Asks(KW_status) /\ ~Asks(KW_driver) /\ ~Asks(KW_cancel)
               /\ (Asks(KW_new) \/ Asks(KW_another))) =>
               StartsANewBooking]_vars

C39_Witness ==
    /\ TurnDone
    /\ Contains(Lower(request.english_text), KW_status)
    /\ Contains(Lower(request.english_text), KW_cancel)
    /\ Contains(Lower(request.english_text), KW_new)
    /\ ~Contains(request.english_text, KW_status)
    /\ Session.state = RIDE_CREATED
    /\ result.response.text \in {"post_ride_menu", "post_ride_error",
                                  "driver_info"}
====
